---------------------------- MODULE Spec2Model ----------------------------
(***************************************************************************)
(* Model of the ingress-monitor-controller's monitor service               *)
(* (pkg/monitor), the ingress validator / URL builder (pkg/ingress) and    *)
(* the provider interface it talks to (pkg/provider) and the Site24x7      *)
(* provider's monitor builder (pkg/provider/site24x7).                     *)
(*                                                                         *)
(* Every Go string is a sequence of one-character strings, so that         *)
(* strings.Split, strings.Join, strings.Contains and concatenation are     *)
(* computed character by character.                                        *)
(***************************************************************************)
EXTENDS Integers, Sequences, FiniteSets, TLC

VARIABLES
    options,    \* config.Options of the service (NoDelete)
    monitors,   \* the provider's monitors, in the order the provider lists them
    nextID,     \* the number the provider assigns to the next created monitor
    ingress,    \* the *networkingv1.Ingress object the last call was given
    last,       \* the last service call: operation, provider calls made, results
    merge,      \* a direct call of mergeProviderSourceRanges: arguments, results
    account,    \* the Site24x7 account: the profiles and groups its API lists
    provider,   \* the Site24x7 Provider's fields written after NewProvider
    now,        \* the time of the clock, in hours
    cluster,    \* the ingress object the API server holds for the reconciled request
    threads,    \* the GetIPSourceRanges invocations under way, one per goroutine
    published   \* the source ranges the provider publishes for its checks

vars ==
    <<options, monitors, nextID, ingress, last, merge, account, provider, now,
      cluster, threads, published>>

-----------------------------------------------------------------------------
(* Bounds of the model *)

\* the provider assigns at most MaxID monitor IDs in one behaviour
MaxID == 2
\* longest whitelist-source-range annotation value, in characters
MaxWhitelistLen == 3
\* longest list of source ranges a provider returns
MaxProviderRanges == 2
\* longest source-range list handed to mergeProviderSourceRanges directly
MaxMergeLen == 2

-----------------------------------------------------------------------------
(* Strings *)

\* all sequences over S of length 0..n
SeqUpTo(S, n) == UNION {[1..k -> S] : k \in 0..n}

\* the characters of a string, as a set
Chars(s) == {s[i] : i \in 1..Len(s)}

\* the entries of a list, as a set
Range(xs) == {xs[i] : i \in 1..Len(xs)}

\* whether the non-empty sub is a substring of s
HasSubstring(s, sub) ==
    \E i \in 1..(Len(s) - Len(sub) + 1) : SubSeq(s, i, i + Len(sub) - 1) = sub

\* strings.Split(s, ","): the pieces between the commas, never an empty list
RECURSIVE Split(_)
Split(s) ==
    IF \A i \in 1..Len(s) : s[i] # ","
    THEN <<s>>
    ELSE LET i == CHOOSE k \in 1..Len(s) :
                      s[k] = "," /\ \A j \in 1..(k - 1) : s[j] # ","
         IN  <<SubSeq(s, 1, i - 1)>> \o Split(SubSeq(s, i + 1, Len(s)))

\* strings.Join(xs, ",")
RECURSIVE Join(_)
Join(xs) ==
    IF xs = <<>> THEN <<>>
    ELSE IF Len(xs) = 1 THEN xs[1]
    ELSE xs[1] \o <<",">> \o Join(Tail(xs))

-----------------------------------------------------------------------------
(* Annotation keys, error values.  An error is a tuple that starts with its
   message; errors are compared by value. *)

\* the keys are opaque to the program: it only looks them up
AnnotationEnabled == "ingress-monitor.bonial.com/enabled"
AnnotationForceHTTPS == "ingress-monitor.bonial.com/force-https"
AnnotationPathOverride == "ingress-monitor.bonial.com/path-override"
nginxForceSSLRedirectAnnotation == "nginx.ingress.kubernetes.io/force-ssl-redirect"
nginxWhitelistSourceRangeAnnotation == "nginx.ingress.kubernetes.io/whitelist-source-range"

StrTrue == <<"t", "r", "u", "e">>
StrFalse == <<"f", "a", "l", "s", "e">>
StrOne == <<"1">>

\* the nil error
Nil == <<"nil">>
\* models.ErrMonitorNotFound
ErrMonitorNotFound == <<"monitor not found">>
\* errors a provider call can fail with besides ErrMonitorNotFound
ErrTransport == <<"transport error">>
ErrAPI == <<"api error">>
ProviderErrors == {ErrTransport, ErrAPI}
\* the error url.Parse returns
ErrURLParse == <<"invalid character in host name">>

\* the empty annotation map
NoAnnotations == [k \in {} |-> <<>>]

\* annotations[key] as Go evaluates it: the zero value when the key is absent
AnnotationValue(annotations, key) ==
    IF key \in DOMAIN annotations THEN annotations[key] ELSE <<>>

\* config.Annotations.BoolValue without a default: true exactly for a present
\* value that parses as boolean true
BoolValue(annotations, key) ==
    /\ key \in DOMAIN annotations
    /\ annotations[key] \in {StrTrue, StrOne}

-----------------------------------------------------------------------------
(* pkg/ingress: validation and URL building *)

\* ingress.Spec.TLS[0].Hosts[0] is read only when all three lengths are > 0
supportsTLS(ing) ==
    /\ Len(ing.tls) > 0
    /\ Len(ing.tls[1]) > 0
    /\ Len(ing.tls[1][1]) > 0

containsWildcard(hostName) == "*" \in Chars(hostName)

ErrTLSWildcard(host) == <<"ingress TLS host contains wildcards", host>>
ErrNoRules == <<"ingress does not have any rules">>
ErrHostWildcard(host) == <<"ingress host contains wildcards", host>>

\* Validate counting the rules before it looks at the TLS host
ValidateRulesFirst(ing) ==
    IF Len(ing.rules) = 0
    THEN ErrNoRules
    ELSE IF supportsTLS(ing) /\ containsWildcard(ing.tls[1][1])
    THEN ErrTLSWildcard(ing.tls[1][1])
    ELSE IF containsWildcard(ing.rules[1])
    THEN ErrHostWildcard(ing.rules[1])
    ELSE Nil

\* Validate looking for a wildcard in the host of every rule
ValidateAnyRuleHost(ing) ==
    IF supportsTLS(ing) /\ containsWildcard(ing.tls[1][1])
    THEN ErrTLSWildcard(ing.tls[1][1])
    ELSE IF Len(ing.rules) = 0
    THEN ErrNoRules
    ELSE IF \E i \in 1..Len(ing.rules) : containsWildcard(ing.rules[i])
    THEN ErrHostWildcard(ing.rules[1])
    ELSE Nil

\* a Validate that does not count the rules
ValidateSkipsRuleCount(ing) ==
    IF supportsTLS(ing) /\ containsWildcard(ing.tls[1][1])
    THEN ErrTLSWildcard(ing.tls[1][1])
    ELSE IF Len(ing.rules) > 0 /\ containsWildcard(ing.rules[1])
    THEN ErrHostWildcard(ing.rules[1])
    ELSE Nil

\* the error Validate returns, Nil when the ingress is supported
Validate(ing) ==
    IF supportsTLS(ing) /\ containsWildcard(ing.tls[1][1])
    THEN ErrTLSWildcard(ing.tls[1][1])
    ELSE IF Len(ing.rules) = 0
    THEN ErrNoRules
    ELSE IF containsWildcard(ing.rules[1])
    THEN ErrHostWildcard(ing.rules[1])
    ELSE Nil

forceHTTPS(ing) ==
    \/ BoolValue(ing.annotations, AnnotationForceHTTPS)
    \/ BoolValue(ing.annotations, nginxForceSSLRedirectAnnotation)

SchemeHTTP == <<"h", "t", "t", "p">>
SchemeHTTPS == <<"h", "t", "t", "p", "s">>

\* the runtime error of an index expression on a list that is too short
ErrIndexOutOfRange == <<"index out of range">>

\* list[i] of the source: the element, or the panic when the list lacks it
Indexed(list, i) ==
    [value |-> IF i \in DOMAIN list THEN list[i] ELSE <<>>,
     panic |-> i \notin DOMAIN list]

\* ingress.Spec.Rules[0].Host
RuleHostRead(ing) == Indexed(ing.rules, 1)

\* ingress.Spec.TLS[0].Hosts[0]
TLSHostRead(ing) == Indexed(Indexed(ing.tls, 1).value, 1)

\* scheme and host of a URL, and whether reading the host panicked
HostURL(scheme, read) ==
    [scheme |-> scheme, host |-> read.value, panic |-> read.panic]

\* buildHostURL asking for the force-HTTPS annotations before the TLS host
buildHostURLForceFirst(ing) ==
    IF forceHTTPS(ing)
    THEN HostURL(SchemeHTTPS, RuleHostRead(ing))
    ELSE IF supportsTLS(ing)
    THEN HostURL(SchemeHTTPS, TLSHostRead(ing))
    ELSE HostURL(SchemeHTTP, RuleHostRead(ing))

\* scheme and host of the monitored URL; without a rule the read of the
\* first rule's host panics
buildHostURL(ing) ==
    IF supportsTLS(ing)
    THEN HostURL(SchemeHTTPS, TLSHostRead(ing))
    ELSE IF forceHTTPS(ing)
    THEN HostURL(SchemeHTTPS, RuleHostRead(ing))
    ELSE HostURL(SchemeHTTP, RuleHostRead(ing))

\* characters url.Parse rejects in a host name
InvalidHostChars == {"{"}

\* url.URL.String() of scheme://host with Path set to path: the path gets a
\* leading "/" when it lacks one and the host is not empty, and "//" is
\* written only when there is a host or a path
URLString(scheme, host, path) ==
    scheme \o <<":">>
    \o (IF host # <<>> \/ path # <<>> THEN <<"/", "/">> ELSE <<>>)
    \o host
    \o (IF path # <<>> /\ Head(path) # "/" /\ host # <<>> THEN <<"/">> ELSE <<>>)
    \o path

\* [url, err]: the URL to monitor, or the error of url.Parse
BuildMonitorURL(ing) ==
    LET h == buildHostURL(ing)
    IN  IF h.panic
        THEN [url |-> <<>>, err |-> ErrIndexOutOfRange]
        ELSE IF Chars(h.host) \cap InvalidHostChars # {}
        THEN [url |-> <<>>, err |-> ErrURLParse]
        ELSE [url |-> URLString(h.scheme, h.host,
                                AnnotationValue(ing.annotations, AnnotationPathOverride)),
              err |-> Nil]

-----------------------------------------------------------------------------
(* pkg/models, pkg/provider: monitors and the provider behind the interface *)

\* models.Monitor
Monitor(id, name, url, annotations) ==
    [ID |-> id, Name |-> name, URL |-> url, Annotations |-> annotations]

\* the nil *models.Monitor
NoMonitor == Monitor(<<>>, <<>>, <<>>, NoAnnotations)

IDDigits == <<"1", "2", "3", "4", "5", "6", "7", "8", "9">>

\* the ID the provider assigns to its n-th monitor
ProviderID(n) == <<IDDigits[n]>>

\* A provider state p is [monitors, nextID, calls]: the monitors the provider
\* holds (ID, Name, URL), the next ID to assign and the calls received so far
\* in the running service call.  fault is Nil, or the error the provider's API
\* answers this call with.
Called(p, call) == [p EXCEPT !.calls = Append(@, call)]

\* index of the first listed monitor with that display name, 0 when none
FirstNamed(ms, name) ==
    IF \E i \in 1..Len(ms) : ms[i].Name = name
    THEN CHOOSE i \in 1..Len(ms) :
             ms[i].Name = name /\ \A j \in 1..(i - 1) : ms[j].Name # name
    ELSE 0

\* Provider.Get: [p, monitor, err]
providerGet(p, name, fault) ==
    LET i == FirstNamed(p.monitors, name)
        res == IF fault # Nil THEN [monitor |-> NoMonitor, err |-> fault]
               ELSE IF i = 0 THEN [monitor |-> NoMonitor, err |-> ErrMonitorNotFound]
               ELSE [monitor |-> Monitor(p.monitors[i].ID, p.monitors[i].Name,
                                         p.monitors[i].URL, NoAnnotations),
                     err |-> Nil]
    IN  [p |-> Called(p, [method |-> "Get", name |-> name,
                        monitor |-> res.monitor, err |-> res.err]),
         monitor |-> res.monitor, err |-> res.err]

\* Provider.Create: [p, err]; the provider assigns the ID of the new monitor
providerCreate(p, model, fault) ==
    LET err == IF fault # Nil THEN fault
               ELSE IF p.nextID > MaxID THEN ErrAPI
               ELSE Nil
        q == IF err # Nil THEN p
             ELSE [p EXCEPT !.monitors = Append(@, [ID |-> ProviderID(p.nextID),
                                                    Name |-> model.Name,
                                                    URL |-> model.URL]),
                            !.nextID = @ + 1]
    IN  [p |-> Called(q, [method |-> "Create", model |-> model, err |-> err]),
         err |-> err]

\* Provider.Update: [p, err]; the monitor with the model's ID is replaced
providerUpdate(p, model, fault) ==
    LET known == \E i \in 1..Len(p.monitors) : p.monitors[i].ID = model.ID
        err == IF fault # Nil THEN fault
               ELSE IF ~known THEN ErrAPI
               ELSE Nil
        q == IF err # Nil THEN p
             ELSE [p EXCEPT !.monitors =
                      [i \in 1..Len(@) |->
                          IF @[i].ID = model.ID
                          THEN [ID |-> model.ID, Name |-> model.Name, URL |-> model.URL]
                          ELSE @[i]]]
    IN  [p |-> Called(q, [method |-> "Update", model |-> model, err |-> err]),
         err |-> err]

\* the list without its i-th entry
RemoveAt(ms, i) == SubSeq(ms, 1, i - 1) \o SubSeq(ms, i + 1, Len(ms))

\* Provider.Delete: [p, err]; looks the monitor up by name, deletes it by ID
providerDelete(p, name, fault) ==
    LET i == FirstNamed(p.monitors, name)
        err == IF fault # Nil THEN fault
               ELSE IF i = 0 THEN ErrMonitorNotFound
               ELSE Nil
        q == IF err # Nil THEN p
             ELSE [p EXCEPT !.monitors = RemoveAt(@, i)]
    IN  [p |-> Called(q, [method |-> "Delete", name |-> name, err |-> err]),
         err |-> err]

\* Provider.GetIPSourceRanges: [p, ranges, err]; answer is the provider's list
\* of CIDR blocks, or <<"err", e>> when the lookup fails with e
providerGetIPSourceRanges(p, model, answer) ==
    LET res == IF answer[1] = "err"
               THEN [ranges |-> <<>>, err |-> answer[2]]
               ELSE [ranges |-> answer[2], err |-> Nil]
    IN  [p |-> Called(p, [method |-> "GetIPSourceRanges", model |-> model,
                          err |-> res.err]),
         ranges |-> res.ranges, err |-> res.err]

-----------------------------------------------------------------------------
(* pkg/monitor: the service *)

\* Namer.Name with the default template {{.Namespace}}-{{.IngressName}}
NamerName(ing) == [name |-> ing.namespace \o <<"-">> \o ing.name, err |-> Nil]

\* buildMonitorModel going on without a URL when BuildMonitorURL fails
buildMonitorModelDropsURLError(ing) ==
    LET n == NamerName(ing)
        u == BuildMonitorURL(ing)
    IN  IF n.err # Nil THEN [monitor |-> NoMonitor, err |-> n.err]
        ELSE [monitor |-> Monitor(<<>>, n.name, u.url, ing.annotations),
              err |-> Nil]

\* service.buildMonitorModel: [monitor, err]
buildMonitorModel(ing) ==
    LET n == NamerName(ing)
        u == BuildMonitorURL(ing)
    IN  IF n.err # Nil THEN [monitor |-> NoMonitor, err |-> n.err]
        ELSE IF u.err # Nil THEN [monitor |-> NoMonitor, err |-> u.err]
        ELSE [monitor |-> Monitor(<<>>, n.name, u.url, ing.annotations),
              err |-> Nil]

\* createMonitor retrying the provider call once more
createMonitorRetry(p, monitor, fault) ==
    LET c == providerCreate(p, monitor, fault)
    IN  providerCreate(c.p, monitor, fault)

\* service.createMonitor: [p, err]
createMonitor(p, monitor, fault) == providerCreate(p, monitor, fault)

\* updateMonitor without newMonitor.ID = oldMonitor.ID
updateMonitorKeepsEmptyID(p, oldMonitor, newMonitor, fault) ==
    providerUpdate(p, newMonitor, fault)

\* service.updateMonitor: [p, err]; the new monitor takes over the old ID
updateMonitor(p, oldMonitor, newMonitor, fault) ==
    providerUpdate(p, [newMonitor EXCEPT !.ID = oldMonitor.ID], fault)

\* deleteMonitor returning every error of the provider
deleteMonitorStrict(p, name, fault) == providerDelete(p, name, fault)

\* a deleteMonitor that calls Delete again after an error
deleteMonitorRetries(p, name, fault) ==
    LET d == providerDelete(p, name, fault)
        e == providerDelete(d.p, name, Nil)
    IN  IF d.err = ErrMonitorNotFound THEN [p |-> d.p, err |-> Nil]
        ELSE IF d.err # Nil THEN e
        ELSE d

\* service.deleteMonitor: [p, err]; a monitor that is not there is no error
deleteMonitor(p, name, fault) ==
    LET d == providerDelete(p, name, fault)
    IN  IF d.err = ErrMonitorNotFound THEN [p |-> d.p, err |-> Nil] ELSE d

\* EnsureMonitor taking every failed lookup for a missing monitor
EnsureMonitorCreatesOnAnyError(p, ing, f1, f2) ==
    IF Validate(ing) # Nil THEN [p |-> p, err |-> Nil]
    ELSE LET b == buildMonitorModel(ing)
         IN  IF b.err # Nil THEN [p |-> p, err |-> b.err]
             ELSE LET g == providerGet(p, b.monitor.Name, f1)
                  IN  IF g.err # Nil
                      THEN createMonitor(g.p, b.monitor, f2)
                      ELSE updateMonitor(g.p, g.monitor, b.monitor, f2)

\* EnsureMonitor returning the validation error instead of skipping
EnsureMonitorReportsInvalid(p, ing, f1, f2) ==
    IF Validate(ing) # Nil THEN [p |-> p, err |-> Validate(ing)]
    ELSE LET b == buildMonitorModel(ing)
         IN  IF b.err # Nil THEN [p |-> p, err |-> b.err]
             ELSE LET g == providerGet(p, b.monitor.Name, f1)
                  IN  IF g.err = ErrMonitorNotFound
                      THEN createMonitor(g.p, b.monitor, f2)
                      ELSE IF g.err # Nil THEN [p |-> g.p, err |-> g.err]
                      ELSE updateMonitor(g.p, g.monitor, b.monitor, f2)

\* an EnsureMonitor that creates without looking the monitor up
EnsureMonitorAlwaysCreates(p, ing, f1, f2) ==
    IF Validate(ing) # Nil THEN [p |-> p, err |-> Nil]
    ELSE LET b == buildMonitorModel(ing)
         IN  IF b.err # Nil THEN [p |-> p, err |-> b.err]
             ELSE createMonitor(p, b.monitor, f2)

\* service.EnsureMonitor: [p, err]; f1 and f2 are the faults of the first and
\* the second provider call
EnsureMonitor(p, ing, f1, f2) ==
    IF Validate(ing) # Nil THEN [p |-> p, err |-> Nil]
    ELSE LET b == buildMonitorModel(ing)
         IN  IF b.err # Nil THEN [p |-> p, err |-> b.err]
             ELSE LET g == providerGet(p, b.monitor.Name, f1)
                  IN  IF g.err = ErrMonitorNotFound
                      THEN createMonitor(g.p, b.monitor, f2)
                      ELSE IF g.err # Nil THEN [p |-> g.p, err |-> g.err]
                      ELSE updateMonitor(g.p, g.monitor, b.monitor, f2)

\* DeleteMonitor without the NoDelete check
DeleteMonitorIgnoresNoDelete(p, opts, ing, fault) ==
    LET n == NamerName(ing)
    IN  IF n.err # Nil THEN [p |-> p, err |-> n.err]
        ELSE deleteMonitor(p, n.name, fault)

\* a DeleteMonitor that builds the monitor's model, URL included, for its name
DeleteMonitorBuildsModel(p, opts, ing, fault) ==
    LET b == buildMonitorModel(ing)
    IN  IF Validate(ing) # Nil THEN [p |-> p, err |-> Validate(ing)]
        ELSE IF b.err # Nil THEN [p |-> p, err |-> b.err]
        ELSE IF opts.NoDelete THEN [p |-> p, err |-> Nil]
        ELSE deleteMonitor(p, b.monitor.Name, fault)

\* service.DeleteMonitor: [p, err]
DeleteMonitor(p, opts, ing, fault) ==
    LET n == NamerName(ing)
    IN  IF n.err # Nil THEN [p |-> p, err |-> n.err]
        ELSE IF opts.NoDelete THEN [p |-> p, err |-> Nil]
        ELSE deleteMonitor(p, n.name, fault)

\* GetProviderIPSourceRanges returning the validation error
GetProviderIPSourceRangesReportsInvalid(p, ing, answer) ==
    IF Validate(ing) # Nil THEN [p |-> p, ranges |-> <<>>, err |-> Validate(ing)]
    ELSE LET b == buildMonitorModel(ing)
         IN  IF b.err # Nil THEN [p |-> p, ranges |-> <<>>, err |-> b.err]
             ELSE providerGetIPSourceRanges(p, b.monitor, answer)

\* service.GetProviderIPSourceRanges: [p, ranges, err]
GetProviderIPSourceRanges(p, ing, answer) ==
    IF Validate(ing) # Nil THEN [p |-> p, ranges |-> <<>>, err |-> Nil]
    ELSE LET b == buildMonitorModel(ing)
         IN  IF b.err # Nil THEN [p |-> p, ranges |-> <<>>, err |-> b.err]
             ELSE providerGetIPSourceRanges(p, b.monitor, answer)

\* difference without the membership test
differenceKeepsAll(a, b) == a

\* difference with its arguments taken the other way round
differenceSwapped(a, b) == SelectSeq(b, LAMBDA el : el \notin Range(a))

\* difference: the elements of a that are not in b, in a's order
difference(a, b) == SelectSeq(a, LAMBDA el : el \notin Range(b))

\* mergeProviderSourceRanges putting the missing ranges in front
mergeProviderSourceRangesPrepends(sourceRanges, providerSourceRanges) ==
    LET missingSourceRanges == difference(providerSourceRanges, sourceRanges)
    IN  IF Len(missingSourceRanges) = 0
        THEN [ranges |-> sourceRanges, updated |-> FALSE]
        ELSE [ranges |-> missingSourceRanges \o sourceRanges, updated |-> TRUE]

\* mergeProviderSourceRanges: [ranges, updated]
mergeProviderSourceRanges(sourceRanges, providerSourceRanges) ==
    LET missingSourceRanges == difference(providerSourceRanges, sourceRanges)
    IN  IF Len(missingSourceRanges) = 0
        THEN [ranges |-> sourceRanges, updated |-> FALSE]
        ELSE [ranges |-> sourceRanges \o missingSourceRanges, updated |-> TRUE]

\* shouldPatchSourceRangeWhitelist looking at the enabled annotation only
shouldPatchWheneverEnabled(ing) == BoolValue(ing.annotations, AnnotationEnabled)

shouldPatchSourceRangeWhitelist(ing) ==
    IF ~BoolValue(ing.annotations, AnnotationEnabled)
    THEN FALSE
    ELSE Len(AnnotationValue(ing.annotations, nginxWhitelistSourceRangeAnnotation)) > 0

\* the annotation map with key set to value (Go's m[key] = value)
SetAnnotation(annotations, key, value) ==
    [k \in DOMAIN annotations \cup {key} |->
        IF k = key THEN value ELSE annotations[k]]

\* AnnotateIngress treating a failed lookup of the ranges as nothing to do
AnnotateIngressSwallowsError(p, ing, answer) ==
    IF ~shouldPatchSourceRangeWhitelist(ing)
    THEN [p |-> p, ingress |-> ing, updated |-> FALSE, err |-> Nil]
    ELSE LET r == GetProviderIPSourceRanges(p, ing, answer)
         IN  IF r.err # Nil \/ Len(r.ranges) = 0
             THEN [p |-> r.p, ingress |-> ing, updated |-> FALSE, err |-> Nil]
             ELSE [p |-> r.p,
                   ingress |-> [ing EXCEPT !.annotations =
                       SetAnnotation(@, nginxWhitelistSourceRangeAnnotation,
                           Join(mergeProviderSourceRanges(
                               Split(AnnotationValue(ing.annotations,
                                   nginxWhitelistSourceRangeAnnotation)),
                               r.ranges).ranges))],
                   updated |-> TRUE, err |-> Nil]

\* an AnnotateIngress that writes a fresh annotation map holding the merged
\* whitelist only
AnnotateIngressFreshAnnotations(p, ing, answer) ==
    IF ~shouldPatchSourceRangeWhitelist(ing)
    THEN [p |-> p, ingress |-> ing, updated |-> FALSE, err |-> Nil]
    ELSE LET r == GetProviderIPSourceRanges(p, ing, answer)
         IN  IF r.err # Nil
             THEN [p |-> r.p, ingress |-> ing, updated |-> FALSE, err |-> r.err]
             ELSE IF Len(r.ranges) = 0
             THEN [p |-> r.p, ingress |-> ing, updated |-> FALSE, err |-> Nil]
             ELSE LET sourceRanges ==
                          Split(AnnotationValue(ing.annotations,
                                                nginxWhitelistSourceRangeAnnotation))
                      m == mergeProviderSourceRanges(sourceRanges, r.ranges)
                  IN  IF ~m.updated
                      THEN [p |-> r.p, ingress |-> ing, updated |-> FALSE, err |-> Nil]
                      ELSE [p |-> r.p,
                            ingress |-> [ing EXCEPT !.annotations =
                                SetAnnotation(NoAnnotations,
                                              nginxWhitelistSourceRangeAnnotation,
                                              Join(m.ranges))],
                            updated |-> TRUE, err |-> Nil]

\* service.AnnotateIngress: [p, ingress, updated, err]; ingress is the object
\* after the call, which patches it in place
AnnotateIngress(p, ing, answer) ==
    IF ~shouldPatchSourceRangeWhitelist(ing)
    THEN [p |-> p, ingress |-> ing, updated |-> FALSE, err |-> Nil]
    ELSE LET r == GetProviderIPSourceRanges(p, ing, answer)
         IN  IF r.err # Nil
             THEN [p |-> r.p, ingress |-> ing, updated |-> FALSE, err |-> r.err]
             ELSE IF Len(r.ranges) = 0
             THEN [p |-> r.p, ingress |-> ing, updated |-> FALSE, err |-> Nil]
             ELSE LET sourceRanges ==
                          Split(AnnotationValue(ing.annotations,
                                                nginxWhitelistSourceRangeAnnotation))
                      m == mergeProviderSourceRanges(sourceRanges, r.ranges)
                  IN  IF ~m.updated
                      THEN [p |-> r.p, ingress |-> ing, updated |-> FALSE, err |-> Nil]
                      ELSE [p |-> r.p,
                            ingress |-> [ing EXCEPT !.annotations =
                                SetAnnotation(@, nginxWhitelistSourceRangeAnnotation,
                                              Join(m.ranges))],
                            updated |-> TRUE, err |-> Nil]

-----------------------------------------------------------------------------
(* Inputs *)

HostA == <<"a">>
HostB == <<"b">>
HostWildcard == <<"*", ".", "a">>
HostUnparsable == <<"{">>

\* networkingv1.Ingress: the fields the program reads
Ingress(meta, annotations, rules, tls) ==
    [namespace |-> meta.namespace, name |-> meta.name,
     annotations |-> annotations, rules |-> rules, tls |-> tls]

\* namespace and name of the resources
Metas ==
    {[namespace |-> <<"k">>, name |-> <<"f">>],
     [namespace |-> <<"a">>, name |-> <<"b", "-", "c">>]}

\* Spec.Rules as the list of the rules' hosts
RuleLists == {<<>>, <<HostA>>, <<HostWildcard>>, <<HostUnparsable>>}

\* Spec.TLS as the list of the entries' host lists
TLSLists == {<<>>, <<<<HostB>>>>}

EnabledOnly == [k \in {AnnotationEnabled} |-> StrTrue]

ServiceAnnotations == {NoAnnotations, EnabledOnly}

\* the resources the service is called with
ServiceIngresses ==
    {Ingress(m, a, r, t) :
        m \in Metas, a \in ServiceAnnotations, r \in RuleLists, t \in TLSLists}

\* faults of the (at most) two provider calls of one service call: after a
\* failed first call there is no second one
FaultPairs ==
    {f \in ({Nil} \cup ProviderErrors) \X ({Nil} \cup ProviderErrors) :
        f[1] # Nil => f[2] = Nil}

\* the object before any call
NoIngress ==
    Ingress([namespace |-> <<>>, name |-> <<>>], NoAnnotations, <<>>, <<>>)

\* the record of a service call
Call(op, calls, err, updated, ranges, answer) ==
    [op |-> op, calls |-> calls, err |-> err, updated |-> updated,
     ranges |-> ranges, answer |-> answer]

NoAnswer == <<"none", <<>>>>
NoCall == Call("none", <<>>, Nil, FALSE, <<>>, NoAnswer)

\* the record of a direct call of mergeProviderSourceRanges
Merge(sourceRanges, providerSourceRanges, result, updated, done) ==
    [sourceRanges |-> sourceRanges, providerSourceRanges |-> providerSourceRanges,
     result |-> result, updated |-> updated, done |-> done]

NoMerge == Merge(<<>>, <<>>, <<>>, FALSE, FALSE)

\* the lists of the Site24x7 account: what LocationProfiles().List(),
\* NotificationProfiles().List(), ThresholdProfiles().List(),
\* MonitorGroups().List() and UserGroups().List() return, as lists of IDs
Account(location, notification, threshold, monitorGroups, userGroups) ==
    [LocationProfiles |-> location, NotificationProfiles |-> notification,
     ThresholdProfiles |-> threshold, MonitorGroups |-> monitorGroups,
     UserGroups |-> userGroups]

\* an account without profiles and groups
NoAccount == Account(<<>>, <<>>, <<>>, <<>>, <<>>)

\* the fields of the Site24x7 Provider that are written after NewProvider:
\* whether ipProvider is set, and the entries of sourceRangeCache, each a
\* list of source ranges with the time it expires at
ProviderState(ipProvider, sourceRangeCache) ==
    [ipProvider |-> ipProvider, sourceRangeCache |-> sourceRangeCache]

\* cache.NewExpiring()
NoEntries == [k \in {} |-> <<>>]

\* the Provider as NewProvider returns it
NoProviderState == ProviderState(FALSE, NoEntries)

\* what the API server holds under the request's name: whether there is an
\* object, the object and its CreationTimestamp
Cluster(exists, object, creationTimestamp) ==
    [exists |-> exists, object |-> object, creationTimestamp |-> creationTimestamp]

NoCluster == Cluster(FALSE, NoIngress, 0)

\* no invocation under way
NoThreads == <<>>

\* the provider as the running call finds it
Provider == [monitors |-> monitors, nextID |-> nextID, calls |-> <<>>]

-----------------------------------------------------------------------------
(* Spec: the service creating, updating and deleting monitors *)

Init ==
    /\ options \in [NoDelete : BOOLEAN]
    /\ monitors = <<>>
    /\ nextID = 1
    /\ ingress = NoIngress
    /\ last = NoCall
    /\ merge = NoMerge
    /\ account = NoAccount
    /\ provider = NoProviderState
    /\ now = 0
    /\ cluster = NoCluster
    /\ threads = NoThreads
    /\ published = <<>>

EnsureMonitorCall ==
    \E ing \in ServiceIngresses, f \in FaultPairs :
        \E r \in {EnsureMonitor(Provider, ing, f[1], f[2])} :
            /\ monitors' = r.p.monitors
            /\ nextID' = r.p.nextID
            /\ ingress' = ing
            /\ last' = Call("EnsureMonitor", r.p.calls, r.err, FALSE, <<>>, NoAnswer)
            /\ UNCHANGED <<options, merge, account,
                        provider, now, cluster, threads, published>>

DeleteMonitorCall ==
    \E ing \in ServiceIngresses, fault \in {Nil} \cup ProviderErrors :
        \E r \in {DeleteMonitor(Provider, options, ing, fault)} :
            /\ monitors' = r.p.monitors
            /\ nextID' = r.p.nextID
            /\ ingress' = ing
            /\ last' = Call("DeleteMonitor", r.p.calls, r.err, FALSE, <<>>, NoAnswer)
            /\ UNCHANGED <<options, merge, account,
                        provider, now, cluster, threads, published>>

Next == EnsureMonitorCall \/ DeleteMonitorCall

Spec == Init /\ [][Next]_vars

-----------------------------------------------------------------------------
(* SpecAnnotate: AnnotateIngress called over and over on one ingress object *)

\* the source ranges a provider returns: CIDR blocks, which hold no comma
ProviderRanges == {<<"x">>, <<"y">>}

\* the characters of a whitelist-source-range annotation value
WhitelistChars == {"x", "y", ","}

\* what the provider answers a GetIPSourceRanges call with
ProviderAnswers ==
    {<<"ok", rs>> : rs \in SeqUpTo(ProviderRanges, MaxProviderRanges)}
        \cup {<<"err", e>> : e \in ProviderErrors}

\* the maps with any of the two annotations AnnotateIngress reads
AnnotateAnnotations ==
    LET withEnabled ==
            {NoAnnotations}
                \cup {[k \in {AnnotationEnabled} |-> v] : v \in {StrTrue, StrFalse, StrOne}}
    IN  withEnabled
            \cup {SetAnnotation(a, nginxWhitelistSourceRangeAnnotation, w) :
                    a \in withEnabled, w \in SeqUpTo(WhitelistChars, MaxWhitelistLen)}

AnnotateIngresses ==
    {Ingress([namespace |-> <<"k">>, name |-> <<"f">>], a, r, <<>>) :
        a \in AnnotateAnnotations, r \in {<<>>, <<HostA>>}}

InitAnnotate ==
    /\ options = [NoDelete |-> FALSE]
    /\ monitors = <<>>
    /\ nextID = 1
    /\ ingress \in AnnotateIngresses
    /\ last = NoCall
    /\ merge = NoMerge
    /\ account = NoAccount
    /\ provider = NoProviderState
    /\ now = 0
    /\ cluster = NoCluster
    /\ threads = NoThreads
    /\ published = <<>>

AnnotateIngressCall ==
    \E answer \in ProviderAnswers :
        \E r \in {AnnotateIngress(Provider, ingress, answer)} :
            /\ ingress' = r.ingress
            /\ last' = Call("AnnotateIngress", r.p.calls, r.err, r.updated,
                            <<>>, answer)
            /\ UNCHANGED <<options, monitors, nextID, merge, account,
                        provider, now, cluster, threads, published>>

NextAnnotate == AnnotateIngressCall

SpecAnnotate == InitAnnotate /\ [][NextAnnotate]_vars

-----------------------------------------------------------------------------
(* SpecMerge: mergeProviderSourceRanges applied to lists of source ranges *)

MergeRanges == {<<"x">>, <<"y">>, <<"x", "y">>}

InitMerge ==
    /\ options = [NoDelete |-> FALSE]
    /\ monitors = <<>>
    /\ nextID = 1
    /\ ingress = NoIngress
    /\ last = NoCall
    /\ merge \in {Merge(w, p, <<>>, FALSE, FALSE) :
                    w \in SeqUpTo(MergeRanges, MaxMergeLen),
                    p \in SeqUpTo(MergeRanges, MaxMergeLen)}
    /\ account = NoAccount
    /\ provider = NoProviderState
    /\ now = 0
    /\ cluster = NoCluster
    /\ threads = NoThreads
    /\ published = <<>>

MergeCall ==
    /\ ~merge.done
    /\ LET m == mergeProviderSourceRanges(merge.sourceRanges,
                                          merge.providerSourceRanges)
       IN  merge' = [merge EXCEPT !.result = m.ranges, !.updated = m.updated,
                                  !.done = TRUE]
    /\ UNCHANGED <<options, monitors, nextID, ingress, last, account,
                provider, now, cluster, threads, published>>

NextMerge == MergeCall

SpecMerge == InitMerge /\ [][NextMerge]_vars

-----------------------------------------------------------------------------
(* Properties of EnsureMonitor and DeleteMonitor, checked under Spec *)

\* the last call was EnsureMonitor and its lookup answered with err
EnsureLookedUp(err) ==
    /\ last.op = "EnsureMonitor"
    /\ Validate(ingress) = Nil
    /\ Len(last.calls) >= 1
    /\ last.calls[1].method = "Get"
    /\ last.calls[1].err = err

\* the monitor EnsureMonitor has to send for the resource, with the given ID
ExpectedMonitor(id) ==
    Monitor(id, NamerName(ingress).name, BuildMonitorURL(ingress).url,
            ingress.annotations)

\* C1: when EnsureMonitor is called on a resource that passes validation and
\* the provider's Get reports ErrMonitorNotFound, the provider calls are
\* exactly Get(name) and then one Create of the monitor with the derived name,
\* the built URL, the resource's annotations and an empty ID; there is no
\* Update; the call returns what Create returned.
C1_CreateWhenNotFound ==
    EnsureLookedUp(ErrMonitorNotFound) =>
        /\ Len(last.calls) = 2
        /\ last.calls[1].name = NamerName(ingress).name
        /\ last.calls[2].method = "Create"
        /\ last.calls[2].model = ExpectedMonitor(<<>>)
        /\ last.err = last.calls[2].err

\* a monitor was created: Get said not found, Create succeeded
C1_Witness ==
    /\ EnsureLookedUp(ErrMonitorNotFound)
    /\ last.calls[2].method = "Create"
    /\ last.calls[2].err = Nil
    /\ last.err = Nil
    /\ Len(monitors) > 0

\* C2: when EnsureMonitor is called on a valid resource and the provider's
\* Get returns an existing monitor, the provider calls are exactly Get and
\* then one Update of the monitor that has the ID Get returned (not empty)
\* and the name, URL and annotations of the resource; there is no Create.
C2_UpdateKeepsID ==
    EnsureLookedUp(Nil) =>
        /\ Len(last.calls) = 2
        /\ last.calls[2].method = "Update"
        /\ last.calls[1].monitor.ID # <<>>
        /\ last.calls[2].model = ExpectedMonitor(last.calls[1].monitor.ID)
        /\ last.err = last.calls[2].err

\* an existing monitor was updated to a new URL under its old ID
C2_Witness ==
    /\ EnsureLookedUp(Nil)
    /\ last.calls[2].method = "Update"
    /\ last.calls[2].err = Nil
    /\ last.calls[1].monitor.URL # last.calls[2].model.URL
    /\ \E i \in 1..Len(monitors) :
           /\ monitors[i].ID = last.calls[1].monitor.ID
           /\ monitors[i].URL = last.calls[2].model.URL

\* C3: when the provider's Get fails with an error other than
\* ErrMonitorNotFound, EnsureMonitor returns that error and Get is the only
\* provider call (no Create, no Update).
C3_LookupErrorPropagates ==
    \A e \in ProviderErrors :
        EnsureLookedUp(e) => (last.err = e /\ Len(last.calls) = 1)

\* a lookup failed while the provider held the resource's monitor
C3_Witness ==
    /\ EnsureLookedUp(ErrAPI)
    /\ last.err = ErrAPI
    /\ FirstNamed(monitors, NamerName(ingress).name) # 0

\* C4: an EnsureMonitor call on a resource that fails validation returns nil,
\* makes no provider call and leaves the provider's monitors as they were.
C4_InvalidIsSkipped ==
    [][(last'.op = "EnsureMonitor" /\ Validate(ingress') # Nil) =>
          /\ last'.err = Nil
          /\ last'.calls = <<>>
          /\ monitors' = monitors
          /\ nextID' = nextID]_vars

\* an invalid resource was skipped while the provider held its monitor
C4_Witness ==
    /\ last.op = "EnsureMonitor"
    /\ Validate(ingress) # Nil
    /\ last.err = Nil
    /\ FirstNamed(monitors, NamerName(ingress).name) # 0

\* C5: with NoDelete off, DeleteMonitor makes exactly one provider call,
\* Delete of the derived name; it returns nil when Delete returned nil or
\* ErrMonitorNotFound and returns Delete's error otherwise.
C5_DeleteOnce ==
    (last.op = "DeleteMonitor" /\ ~options.NoDelete) =>
        /\ Len(last.calls) = 1
        /\ last.calls[1].method = "Delete"
        /\ last.calls[1].name = NamerName(ingress).name
        /\ last.err = IF last.calls[1].err \in {Nil, ErrMonitorNotFound}
                      THEN Nil
                      ELSE last.calls[1].err

\* a monitor that was not there was deleted without an error
C5_Witness ==
    /\ last.op = "DeleteMonitor"
    /\ ~options.NoDelete
    /\ last.calls[1].err = ErrMonitorNotFound
    /\ last.err = Nil
    /\ Len(monitors) > 0

\* the IDs of the monitors the provider holds
MonitorIDs(ms) == {ms[i].ID : i \in 1..Len(ms)}

\* C6: with NoDelete set, a DeleteMonitor call makes no provider call and
\* returns nil, and no service call removes a monitor from the provider.
C6_NoDeleteKeepsMonitors ==
    [][options.NoDelete =>
          /\ last'.op = "DeleteMonitor" => (last'.calls = <<>> /\ last'.err = Nil)
          /\ MonitorIDs(monitors) \subseteq MonitorIDs(monitors')]_vars

\* DeleteMonitor was called for a resource whose monitor the provider holds
C6_Witness ==
    /\ options.NoDelete
    /\ last.op = "DeleteMonitor"
    /\ last.err = Nil
    /\ FirstNamed(monitors, NamerName(ingress).name) # 0

-----------------------------------------------------------------------------
(* Properties of mergeProviderSourceRanges, checked under SpecMerge *)

\* the positions of p whose entry equals no entry of w
MissingAt(w, p) == {i \in 1..Len(p) : \A j \in 1..Len(w) : p[i] # w[j]}

\* C7: the list mergeProviderSourceRanges(W, P) returns starts with W, entry
\* for entry, and goes on with exactly the entries of P that equal no entry
\* of W, in P's order; the boolean it returns is true exactly when there is
\* such an entry.
C7_MergeAppendsMissing ==
    merge.done =>
        LET w == merge.sourceRanges
            p == merge.providerSourceRanges
            out == merge.result
            missing == MissingAt(w, p)
        IN  /\ Len(out) = Len(w) + Cardinality(missing)
            /\ \A i \in 1..Len(w) : out[i] = w[i]
            /\ \A i \in missing :
                   out[Len(w) + Cardinality({j \in missing : j <= i})] = p[i]
            /\ merge.updated <=> (missing # {})

\* a merge of a two-entry P that appended exactly one entry after W
C7_Witness ==
    /\ merge.done
    /\ merge.updated
    /\ Len(merge.sourceRanges) > 0
    /\ Len(merge.result) = Len(merge.sourceRanges) + 1
    /\ Len(merge.providerSourceRanges) = 2

-----------------------------------------------------------------------------
(* Properties of AnnotateIngress, checked under SpecAnnotate *)

\* the value of the whitelist-source-range annotation, empty when absent
Whitelist(ing) == AnnotationValue(ing.annotations, nginxWhitelistSourceRangeAnnotation)

\* whether r is one of the comma-separated entries of the string w
IsEntry(r, w) ==
    /\ "," \notin Chars(r)
    /\ HasSubstring(<<",">> \o w \o <<",">>, <<",">> \o r \o <<",">>)

\* what AnnotateIngress requires before it asks the provider
PatchPreconditions(ing) ==
    /\ AnnotationEnabled \in DOMAIN ing.annotations
    /\ ing.annotations[AnnotationEnabled] \in {StrTrue, StrOne}
    /\ nginxWhitelistSourceRangeAnnotation \in DOMAIN ing.annotations
    /\ ing.annotations[nginxWhitelistSourceRangeAnnotation] # <<>>

\* C8: when an AnnotateIngress call returned updated = true, the next
\* AnnotateIngress call on the object for which the provider returns the
\* same ranges returns updated = false, no error, and leaves the object
\* (its whitelist annotation included) as it was.
C8_PatchIsIdempotent ==
    [][(/\ last.op = "AnnotateIngress"
        /\ last.updated
        /\ last'.op = "AnnotateIngress"
        /\ last'.answer = last.answer) =>
          (/\ ~last'.updated
           /\ last'.err = Nil
           /\ ingress' = ingress)]_vars

\* a second call found nothing to add to a whitelist that an earlier call
\* had patched (it is longer than any whitelist the object started with)
C8_Witness ==
    /\ last.op = "AnnotateIngress"
    /\ ~last.updated
    /\ last.answer[1] = "ok"
    /\ Len(last.answer[2]) > 0
    /\ \A r \in Range(last.answer[2]) : IsEntry(r, Whitelist(ingress))
    /\ Len(Whitelist(ingress)) > MaxWhitelistLen
    /\ Len(last.calls) = 1

\* C9: an AnnotateIngress call on an object whose enabled annotation is
\* absent or not boolean-true, or whose whitelist annotation is absent or
\* empty, returns updated = false and no error, makes no provider call and
\* leaves the object as it was; and no call adds the whitelist annotation
\* to an object that did not have it.
C9_NoPatchWithoutPreconditions ==
    [][last'.op = "AnnotateIngress" =>
          /\ ~PatchPreconditions(ingress) =>
                 (/\ ~last'.updated
                  /\ last'.err = Nil
                  /\ last'.calls = <<>>
                  /\ ingress' = ingress)
          /\ nginxWhitelistSourceRangeAnnotation \notin DOMAIN ingress.annotations =>
                 nginxWhitelistSourceRangeAnnotation \notin DOMAIN ingress'.annotations]_vars

\* AnnotateIngress was called on an enabled, valid object with no whitelist
C9_Witness ==
    /\ last.op = "AnnotateIngress"
    /\ BoolValue(ingress.annotations, AnnotationEnabled)
    /\ nginxWhitelistSourceRangeAnnotation \notin DOMAIN ingress.annotations
    /\ Validate(ingress) = Nil
    /\ last.answer = <<"ok", <<<<"x">>>>>>
    /\ ~last.updated

\* the ranges AnnotateIngress got from GetProviderIPSourceRanges in a call on
\* ing that the provider answers with answer (none for an invalid resource)
RangesFor(ing, answer) ==
    IF Validate(ing) = Nil /\ answer[1] = "ok" THEN answer[2] ELSE <<>>

\* C10: when the preconditions hold and the lookup of the provider's ranges
\* succeeds, AnnotateIngress returns updated = true exactly when some
\* returned range is not an entry of the whitelist as it was before the
\* call; when it returns updated = false (no range returned, or all of them
\* entries already) the object is left as it was.
C10_UpdatedIffMissing ==
    [][(/\ last'.op = "AnnotateIngress"
        /\ PatchPreconditions(ingress)
        /\ last'.err = Nil) =>
          (/\ last'.updated <=>
                 \E r \in Range(RangesFor(ingress, last'.answer)) :
                     ~IsEntry(r, Whitelist(ingress))
           /\ ~last'.updated => ingress' = ingress)]_vars

\* the provider returned ranges that were all entries of a whitelist with
\* more entries than that, and nothing was patched
C10_Witness ==
    /\ last.op = "AnnotateIngress"
    /\ PatchPreconditions(ingress)
    /\ Len(last.calls) = 1
    /\ last.err = Nil
    /\ ~last.updated
    /\ Len(last.answer[2]) = 2
    /\ Whitelist(ingress) = <<"y", ",", "x">>

\* the provider's GetIPSourceRanges was called in the call recorded in c and
\* failed
LookupFailed(c) ==
    /\ c.op = "AnnotateIngress"
    /\ \E i \in 1..Len(c.calls) :
           /\ c.calls[i].method = "GetIPSourceRanges"
           /\ c.calls[i].err # Nil

\* C11: when the provider's lookup of the IP ranges fails, AnnotateIngress
\* returns updated = false together with the very error of the provider, and
\* the object (its annotations included) is left as it was.
C11_LookupErrorLeavesIngress ==
    [][LookupFailed(last') =>
          (/\ ~last'.updated
           /\ last'.answer[1] = "err"
           /\ last'.err = last'.answer[2]
           /\ ingress' = ingress)]_vars

\* the lookup failed in a call on an object that an earlier call had patched
C11_Witness ==
    /\ LookupFailed(last)
    /\ last.err = ErrTransport
    /\ PatchPreconditions(ingress)
    /\ Len(Whitelist(ingress)) > MaxWhitelistLen

-----------------------------------------------------------------------------
(* SpecRanges: GetProviderIPSourceRanges called on the resources *)

InitRanges ==
    /\ options = [NoDelete |-> FALSE]
    /\ monitors = <<>>
    /\ nextID = 1
    /\ ingress = NoIngress
    /\ last = NoCall
    /\ merge = NoMerge
    /\ account = NoAccount
    /\ provider = NoProviderState
    /\ now = 0
    /\ cluster = NoCluster
    /\ threads = NoThreads
    /\ published = <<>>

GetProviderIPSourceRangesCall ==
    \E ing \in ServiceIngresses, answer \in ProviderAnswers :
        \E r \in {GetProviderIPSourceRanges(Provider, ing, answer)} :
            /\ ingress' = ing
            /\ last' = Call("GetProviderIPSourceRanges", r.p.calls, r.err, FALSE,
                            r.ranges, answer)
            /\ UNCHANGED <<options, monitors, nextID, merge, account,
                        provider, now, cluster, threads, published>>

NextRanges == GetProviderIPSourceRangesCall

SpecRanges == InitRanges /\ [][NextRanges]_vars

\* C12: GetProviderIPSourceRanges on a resource that fails validation
\* returns an empty list and no error and calls no provider method; on a
\* resource that passes validation and has a monitor built from it, the
\* provider's GetIPSourceRanges is called once, with that monitor (derived
\* name, built URL, the resource's annotations), and the call returns the
\* provider's list and error as they are.
C12_RangesOfValidResource ==
    last.op = "GetProviderIPSourceRanges" =>
        /\ Validate(ingress) # Nil =>
               (/\ last.ranges = <<>>
                /\ last.err = Nil
                /\ last.calls = <<>>)
        /\ (Validate(ingress) = Nil /\ BuildMonitorURL(ingress).err = Nil) =>
               (/\ Len(last.calls) = 1
                /\ last.calls[1].method = "GetIPSourceRanges"
                /\ last.calls[1].model = ExpectedMonitor(<<>>)
                /\ last.answer[1] = "ok" =>
                       (last.ranges = last.answer[2] /\ last.err = Nil)
                /\ last.answer[1] = "err" =>
                       (last.ranges = <<>> /\ last.err = last.answer[2]))

\* the provider's two ranges came back for a valid resource
C12_Witness ==
    /\ last.op = "GetProviderIPSourceRanges"
    /\ Validate(ingress) = Nil
    /\ Len(last.calls) = 1
    /\ last.err = Nil
    /\ last.ranges = <<<<"x">>, <<"y">>>>

-----------------------------------------------------------------------------
(* SpecIngress: Validate and BuildMonitorURL applied to ingress shapes *)

\* Spec.Rules of the shapes: none, a host, a wildcard host, no host, and a
\* wildcard host that is not the first one
ShapeRules ==
    {<<>>, <<HostA>>, <<HostWildcard>>, <<<<>>>>, <<HostA, HostWildcard>>}

\* Spec.TLS of the shapes: none, an entry without hosts, an empty first host,
\* a host, a wildcard host, and wildcard hosts that are not the first one
ShapeTLS ==
    {<<>>, <<<<>>>>, <<<<<<>>>>>>, <<<<HostB>>>>, <<<<HostWildcard>>>>,
     <<<<HostB, HostWildcard>>>>, <<<<HostB>>, <<HostWildcard>>>>}

PathHealth == <<"p">>
PathSlashHealth == <<"/", "p">>

\* the maps over the three annotations BuildMonitorURL reads
ShapeAnnotations ==
    LET opt(key, values) ==
            {NoAnnotations} \cup {[k \in {key} |-> v] : v \in values}
        union(a, b) ==
            [k \in DOMAIN a \cup DOMAIN b |-> IF k \in DOMAIN a THEN a[k] ELSE b[k]]
    IN  {union(union(f, n), p) :
            f \in opt(AnnotationForceHTTPS, {StrTrue, StrFalse}),
            n \in opt(nginxForceSSLRedirectAnnotation, {StrTrue, StrFalse}),
            p \in opt(AnnotationPathOverride, {<<>>, PathHealth, PathSlashHealth})}

ShapeIngresses ==
    {Ingress([namespace |-> <<"k">>, name |-> <<"f">>], a, r, t) :
        a \in ShapeAnnotations, r \in ShapeRules, t \in ShapeTLS}

\* the record of a call of Validate or BuildMonitorURL
Built(op, err, url) == [op |-> op, err |-> err, url |-> url]

NoBuilt == Built("none", Nil, <<>>)

InitIngress ==
    /\ options = [NoDelete |-> FALSE]
    /\ monitors = <<>>
    /\ nextID = 1
    /\ ingress \in ShapeIngresses
    /\ last = NoBuilt
    /\ merge = NoMerge
    /\ account = NoAccount
    /\ provider = NoProviderState
    /\ now = 0
    /\ cluster = NoCluster
    /\ threads = NoThreads
    /\ published = <<>>

ValidateCall ==
    /\ last' = Built("Validate", Validate(ingress), <<>>)
    /\ UNCHANGED <<options, monitors, nextID, ingress, merge, account,
                provider, now, cluster, threads, published>>

\* the service builds the URL only of an ingress that Validate accepted
BuildMonitorURLCall ==
    /\ Validate(ingress) = Nil
    /\ \E r \in {BuildMonitorURL(ingress)} :
           last' = Built("BuildMonitorURL", r.err, r.url)
    /\ UNCHANGED <<options, monitors, nextID, ingress, merge, account,
                provider, now, cluster, threads, published>>

NextIngress == ValidateCall \/ BuildMonitorURLCall

SpecIngress == InitIngress /\ [][NextIngress]_vars

\* the first host of the first TLS entry, empty when there is none
FirstTLSHost(ing) ==
    IF Len(ing.tls) > 0 /\ Len(ing.tls[1]) > 0 THEN ing.tls[1][1] ELSE <<>>

HasStar(host) == HasSubstring(host, <<"*">>)

\* C13 as stated: for any resource with zero routing rules, Validate fails
\* with the no-rules error, whatever its TLS configuration is (a TLS block
\* whose first host contains a wildcard included).
C13_NoRulesWhateverTLS ==
    (last.op = "Validate" /\ Len(ingress.rules) = 0) => last.err = ErrNoRules

\* C13 amended: for any resource with zero routing rules Validate fails: with
\* the TLS-wildcard error naming the first TLS host when that host is not
\* empty and contains a wildcard, and with the no-rules error otherwise.
C13_NoRulesFails ==
    (last.op = "Validate" /\ Len(ingress.rules) = 0) =>
        /\ last.err # Nil
        /\ HasStar(FirstTLSHost(ingress)) =>
               last.err = ErrTLSWildcard(FirstTLSHost(ingress))
        /\ ~HasStar(FirstTLSHost(ingress)) => last.err = ErrNoRules

\* Validate rejected a resource with no rules and a TLS host for its rules
C13_Witness ==
    /\ last.op = "Validate"
    /\ Len(ingress.rules) = 0
    /\ FirstTLSHost(ingress) = HostB
    /\ last.err = ErrNoRules

IsTrue(annotations, key) ==
    key \in DOMAIN annotations /\ annotations[key] \in {StrTrue, StrOne}

\* path as it is written after a host
AfterHost(path) ==
    IF path = <<>> \/ Head(path) = "/" THEN path ELSE <<"/">> \o path

\* C16: BuildMonitorURL on a validated resource takes https and the first
\* TLS host when TLS has a non-empty first host, whatever the force-HTTPS
\* annotations and the rule host are; else https and the first rule host
\* when the force-https annotation or the nginx force-ssl-redirect
\* annotation is a boolean true; else http and the first rule host; the
\* path is the path-override annotation when present and empty otherwise.
\* The result is the URL of that scheme, host and path: for a host that is
\* not empty it reads scheme://host followed by the path.
C16_URLPriority ==
    (last.op = "BuildMonitorURL" /\ last.err = Nil) =>
        LET tlsHost == FirstTLSHost(ingress)
            force == \/ IsTrue(ingress.annotations, AnnotationForceHTTPS)
                     \/ IsTrue(ingress.annotations, nginxForceSSLRedirectAnnotation)
            scheme == IF tlsHost # <<>> \/ force THEN SchemeHTTPS ELSE SchemeHTTP
            host == IF tlsHost # <<>> THEN tlsHost ELSE ingress.rules[1]
            path == IF AnnotationPathOverride \in DOMAIN ingress.annotations
                    THEN ingress.annotations[AnnotationPathOverride]
                    ELSE <<>>
        IN  /\ last.url = URLString(scheme, host, path)
            /\ host # <<>> =>
                   last.url = scheme \o <<":", "/", "/">> \o host \o AfterHost(path)

\* the URL of a resource with a TLS host, a different rule host, the
\* force-https annotation set to false and a path override
C16_Witness ==
    /\ last.op = "BuildMonitorURL"
    /\ ingress.rules = <<HostA>>
    /\ FirstTLSHost(ingress) = HostB
    /\ AnnotationForceHTTPS \in DOMAIN ingress.annotations
    /\ ingress.annotations[AnnotationForceHTTPS] = StrFalse
    /\ last.url = <<"h", "t", "t", "p", "s", ":", "/", "/", "b", "/", "p">>

-----------------------------------------------------------------------------
(* SpecResources: the service called for resources whose names and hosts
   are close to each other *)

\* namespace and name of the resources; the first two differ only in where
\* the "-" of the pair is
ResourceMetas ==
    {[namespace |-> <<"a">>, name |-> <<"b", "-", "c">>],
     [namespace |-> <<"a", "-", "b">>, name |-> <<"c">>],
     [namespace |-> <<"k">>, name |-> <<"f">>]}

\* Spec.Rules of the resources: a host, another host, no host, a host that
\* url.Parse rejects
ResourceRules == {<<HostA>>, <<HostB>>, <<<<>>>>, <<HostUnparsable>>}

Resources ==
    {Ingress(m, NoAnnotations, r, <<>>) : m \in ResourceMetas, r \in ResourceRules}

\* what the provider answers GetIPSourceRanges with
ResourceAnswers == {<<"ok", <<<<"x">>>>>>, <<"err", ErrTransport>>}

InitResources ==
    /\ options \in [NoDelete : BOOLEAN]
    /\ monitors = <<>>
    /\ nextID = 1
    /\ ingress = NoIngress
    /\ last = NoCall
    /\ merge = NoMerge
    /\ account = NoAccount
    /\ provider = NoProviderState
    /\ now = 0
    /\ cluster = NoCluster
    /\ threads = NoThreads
    /\ published = <<>>

EnsureResource ==
    \E ing \in Resources, f \in FaultPairs :
        \E r \in {EnsureMonitor(Provider, ing, f[1], f[2])} :
            /\ monitors' = r.p.monitors
            /\ nextID' = r.p.nextID
            /\ ingress' = ing
            /\ last' = Call("EnsureMonitor", r.p.calls, r.err, FALSE, <<>>, NoAnswer)
            /\ UNCHANGED <<options, merge, account,
                        provider, now, cluster, threads, published>>

DeleteResource ==
    \E ing \in Resources, fault \in {Nil} \cup ProviderErrors :
        \E r \in {DeleteMonitor(Provider, options, ing, fault)} :
            /\ monitors' = r.p.monitors
            /\ nextID' = r.p.nextID
            /\ ingress' = ing
            /\ last' = Call("DeleteMonitor", r.p.calls, r.err, FALSE, <<>>, NoAnswer)
            /\ UNCHANGED <<options, merge, account,
                        provider, now, cluster, threads, published>>

RangesOfResource ==
    \E ing \in Resources, answer \in ResourceAnswers :
        \E r \in {GetProviderIPSourceRanges(Provider, ing, answer)} :
            /\ ingress' = ing
            /\ last' = Call("GetProviderIPSourceRanges", r.p.calls, r.err, FALSE,
                            r.ranges, answer)
            /\ UNCHANGED <<options, monitors, nextID, merge, account,
                        provider, now, cluster, threads, published>>

NextResources == EnsureResource \/ DeleteResource \/ RangesOfResource

SpecResources == InitResources /\ [][NextResources]_vars

\* C15: a resource whose first rule has an empty host and which has no
\* usable TLS host fails validation, so that EnsureMonitor returns no error
\* for it and calls neither Create nor Update of the provider.
C15_EmptyHostIsSkipped ==
    (/\ last.op = "EnsureMonitor"
     /\ Len(ingress.rules) > 0
     /\ ingress.rules[1] = <<>>
     /\ FirstTLSHost(ingress) = <<>>) =>
        /\ last.err = Nil
        /\ \A i \in 1..Len(last.calls) :
               last.calls[i].method \notin {"Create", "Update"}

\* the host of the URL of a validated resource holds a character that
\* url.Parse rejects
URLUnparsable(ing) ==
    /\ Validate(ing) = Nil
    /\ "{" \in Chars(IF FirstTLSHost(ing) # <<>> THEN FirstTLSHost(ing)
                     ELSE ing.rules[1])

\* C17: for a resource that passes validation but whose derived URL cannot
\* be parsed, EnsureMonitor and GetProviderIPSourceRanges return the error
\* of the URL builder (the resource is not skipped) and make no provider
\* call at all, so that the provider's monitors stay as they are.
C17_URLErrorPropagates ==
    [][(/\ last'.op \in {"EnsureMonitor", "GetProviderIPSourceRanges"}
        /\ URLUnparsable(ingress')) =>
          (/\ last'.err = ErrURLParse
           /\ last'.calls = <<>>
           /\ last'.ranges = <<>>
           /\ monitors' = monitors)]_vars

\* EnsureMonitor failed on the URL of a resource while the provider held
\* the monitor of another one
C17_Witness ==
    /\ last.op = "EnsureMonitor"
    /\ ingress.rules = <<HostUnparsable>>
    /\ last.err # Nil
    /\ last.calls = <<>>
    /\ Len(monitors) > 0

\* C18: any two resources with different (namespace, name) pairs have
\* different derived monitor names, so that an EnsureMonitor or
\* DeleteMonitor call for one resource leaves the monitor that the call
\* before it created or updated for another resource as it was.
C18_DistinctNames ==
    [][(/\ last.op = "EnsureMonitor"
        /\ last.err = Nil
        /\ Len(last.calls) = 2
        /\ last'.op \in {"EnsureMonitor", "DeleteMonitor"}
        /\ <<ingress'.namespace, ingress'.name>> # <<ingress.namespace, ingress.name>>) =>
          (/\ NamerName(ingress').name # NamerName(ingress).name
           /\ \A m \in Range(monitors) :
                  m.Name = NamerName(ingress).name => m \in Range(monitors'))]_vars

-----------------------------------------------------------------------------
(* pkg/provider/site24x7: the builder of Site24x7 monitors and the provider *)

AnnotationSite24x7LocationProfileID == "site24x7.ingress-monitor.bonial.com/location-profile-id"
AnnotationSite24x7NotificationProfileID == "site24x7.ingress-monitor.bonial.com/notification-profile-id"
AnnotationSite24x7ThresholdProfileID == "site24x7.ingress-monitor.bonial.com/threshold-profile-id"
AnnotationSite24x7MonitorGroupIDs == "site24x7.ingress-monitor.bonial.com/monitor-group-ids"
AnnotationSite24x7UserGroupIDs == "site24x7.ingress-monitor.bonial.com/user-group-ids"
AnnotationSite24x7CustomHeaders == "site24x7.ingress-monitor.bonial.com/custom-headers"
AnnotationSite24x7Actions == "site24x7.ingress-monitor.bonial.com/actions"
AnnotationSite24x7MatchCase == "site24x7.ingress-monitor.bonial.com/match-case"
AnnotationSite24x7Timeout == "site24x7.ingress-monitor.bonial.com/timeout"
AnnotationSite24x7UseNameServer == "site24x7.ingress-monitor.bonial.com/use-name-server"

\* config.Annotations.StringValue: the annotation when present, else the default
StringValue(annotations, key, default) ==
    IF key \in DOMAIN annotations THEN annotations[key] ELSE default

\* config.Annotations.StringSliceValue: the comma-separated entries of the
\* annotation when present, else the default
StringSliceValue(annotations, key, default) ==
    IF key \in DOMAIN annotations THEN Split(annotations[key]) ELSE default

StrZero == <<"0">>

\* strconv.ParseBool on the values met here: [value, ok]
ParseBool(str) ==
    IF str \in {StrTrue, StrOne} THEN [value |-> TRUE, ok |-> TRUE]
    ELSE IF str \in {StrFalse, StrZero} THEN [value |-> FALSE, ok |-> TRUE]
    ELSE [value |-> FALSE, ok |-> FALSE]

Digits == <<"0", "1", "2", "3", "4", "5", "6", "7", "8", "9">>

\* the number a decimal digit stands for
DigitValue(ch) == (CHOOSE i \in 1..Len(Digits) : Digits[i] = ch) - 1

RECURSIVE DecimalValue(_)
\* the number a string of decimal digits stands for
DecimalValue(str) ==
    IF str = <<>> THEN 0
    ELSE 10 * DecimalValue(SubSeq(str, 1, Len(str) - 1)) + DigitValue(str[Len(str)])

\* strconv.Atoi on unsigned decimal numbers: [value, ok]
Atoi(str) ==
    IF str # <<>> /\ \A i \in 1..Len(str) : str[i] \in Range(Digits)
    THEN [value |-> DecimalValue(str), ok |-> TRUE]
    ELSE [value |-> 0, ok |-> FALSE]

\* config.Annotations.BoolValue with a default: its one result is the
\* annotation when it is present and a boolean, else the default
BoolValueOr(annotations, key, default) ==
    IF key \in DOMAIN annotations /\ ParseBool(annotations[key]).ok
    THEN ParseBool(annotations[key]).value
    ELSE default

\* config.Annotations.IntValue: its one result is the annotation when it is
\* present and a number, else the default
IntValue(annotations, key, default) ==
    IF key \in DOMAIN annotations /\ Atoi(annotations[key]).ok
    THEN Atoi(annotations[key]).value
    ELSE default

ErrInvalidJSON(key, raw) == <<"invalid json in annotation", <<key>>, raw>>

\* config.Annotations.ParseJSON into a list: [value, found, err].  The JSON
\* text of a list is "[" entries "]" with the entries separated by commas;
\* nothing is decoded when the annotation is absent.
ParseJSON(annotations, key) ==
    IF key \notin DOMAIN annotations
    THEN [value |-> <<>>, found |-> FALSE, err |-> Nil]
    ELSE LET raw == annotations[key]
         IN  IF Len(raw) >= 2 /\ raw[1] = "[" /\ raw[Len(raw)] = "]"
                /\ \A i \in 2..(Len(raw) - 1) : raw[i] \notin {"[", "]", "{", "}"}
             THEN [value |-> IF Len(raw) = 2 THEN <<>>
                             ELSE Split(SubSeq(raw, 2, Len(raw) - 1)),
                   found |-> TRUE, err |-> Nil]
             ELSE [value |-> <<>>, found |-> FALSE, err |-> ErrInvalidJSON(key, raw)]

\* config.Site24x7MonitorDefaults: the fields the builder resolves here
\* (ids and auto are the five profile and group fields in the order
\* location, notification, threshold, monitor groups, user groups)
MonitorDefaults(ids, auto, customHeaders, actions) ==
    [LocationProfileID |-> ids[1], NotificationProfileID |-> ids[2],
     ThresholdProfileID |-> ids[3], MonitorGroupIDs |-> ids[4],
     UserGroupIDs |-> ids[5], AutoLocationProfile |-> auto[1],
     AutoNotificationProfile |-> auto[2], AutoThresholdProfile |-> auto[3],
     AutoMonitorGroup |-> auto[4], AutoUserGroup |-> auto[5],
     CustomHeaders |-> customHeaders, Actions |-> actions,
     MatchCase |-> FALSE, Timeout |-> 0, UseNameServer |-> FALSE]

TypeURL == <<"U", "R", "L">>

\* A client c is [account, calls]: the account behind the Site24x7 API and
\* the API calls received so far in the running provider call.
Client(acc) == [account |-> acc, calls |-> <<>>]

ClientCalled(c, call) == [c EXCEPT !.calls = Append(@, call)]

\* client.<kind>().List(): [c, list]
clientList(c, kind) ==
    [c |-> ClientCalled(c, [method |-> "List", kind |-> kind]),
     list |-> c.account[kind]]

ErrNoLocationProfiles == <<"no location profiles configured">>
ErrNoNotificationProfiles == <<"no notification profiles configured">>
ErrNoThresholdProfiles == <<"no threshold profiles configured">>
ErrNoMonitorGroups == <<"no monitor groups configured">>
ErrNoUserGroups == <<"no user groups configured">>

\* A finalizer returns [c, monitor, err].
Finalized(c, monitor, err) == [c |-> c, monitor |-> monitor, err |-> err]

finalizeLocationProfile(c, defaults, monitor) ==
    IF monitor.LocationProfileID # <<>> \/ ~defaults.AutoLocationProfile
    THEN Finalized(c, monitor, Nil)
    ELSE LET l == clientList(c, "LocationProfiles")
         IN  IF Len(l.list) = 0
             THEN Finalized(l.c, monitor, ErrNoLocationProfiles)
             ELSE Finalized(l.c, [monitor EXCEPT !.LocationProfileID = l.list[1]], Nil)

finalizeNotificationProfile(c, defaults, monitor) ==
    IF monitor.NotificationProfileID # <<>> \/ ~defaults.AutoNotificationProfile
    THEN Finalized(c, monitor, Nil)
    ELSE LET l == clientList(c, "NotificationProfiles")
         IN  IF Len(l.list) = 0
             THEN Finalized(l.c, monitor, ErrNoNotificationProfiles)
             ELSE Finalized(l.c, [monitor EXCEPT !.NotificationProfileID = l.list[1]], Nil)

finalizeThresholdProfile(c, defaults, monitor) ==
    IF monitor.ThresholdProfileID # <<>> \/ ~defaults.AutoThresholdProfile
    THEN Finalized(c, monitor, Nil)
    ELSE LET l == clientList(c, "ThresholdProfiles")
         IN  IF Len(l.list) = 0
             THEN Finalized(l.c, monitor, ErrNoThresholdProfiles)
             ELSE Finalized(l.c, [monitor EXCEPT !.ThresholdProfileID = l.list[1]], Nil)

finalizeMonitorGroup(c, defaults, monitor) ==
    IF Len(monitor.MonitorGroups) > 0 \/ ~defaults.AutoMonitorGroup
    THEN Finalized(c, monitor, Nil)
    ELSE LET l == clientList(c, "MonitorGroups")
         IN  IF Len(l.list) = 0
             THEN Finalized(l.c, monitor, ErrNoMonitorGroups)
             ELSE Finalized(l.c, [monitor EXCEPT !.MonitorGroups = <<l.list[1]>>], Nil)

finalizeUserGroup(c, defaults, monitor) ==
    IF Len(monitor.UserGroupIDs) > 0 \/ ~defaults.AutoUserGroup
    THEN Finalized(c, monitor, Nil)
    ELSE LET l == clientList(c, "UserGroups")
         IN  IF Len(l.list) = 0
             THEN Finalized(l.c, monitor, ErrNoUserGroups)
             ELSE Finalized(l.c, [monitor EXCEPT !.UserGroupIDs = <<l.list[1]>>], Nil)

\* the nil *site24x7api.Monitor
NoSite24x7Monitor ==
    [Type |-> <<>>, MonitorID |-> <<>>, DisplayName |-> <<>>, Website |-> <<>>,
     MatchCase |-> FALSE, Timeout |-> 0, UseNameServer |-> FALSE,
     UserGroupIDs |-> <<>>, MonitorGroups |-> <<>>, LocationProfileID |-> <<>>,
     NotificationProfileID |-> <<>>, ThresholdProfileID |-> <<>>,
     CustomHeaders |-> <<>>, ActionIDs |-> <<>>]

\* one step of the loop of finalizeMonitor: after the error of r no
\* finalizer is run, else the result is next, the one of the finalizer
\* applied to r
nextFinalizer(r, next) ==
    IF r.err # Nil THEN Finalized(r.c, NoSite24x7Monitor, r.err) ELSE next

\* finalizeMonitor running every finalizer, whatever the ones before returned
finalizeMonitorIgnoresErrors(c, defaults, monitor) ==
    LET anyway(r) == Finalized(r.c, r.monitor, Nil)
        r1 == anyway(finalizeLocationProfile(c, defaults, monitor))
        r2 == anyway(finalizeNotificationProfile(r1.c, defaults, r1.monitor))
        r3 == anyway(finalizeThresholdProfile(r2.c, defaults, r2.monitor))
        r4 == anyway(finalizeMonitorGroup(r3.c, defaults, r3.monitor))
    IN  anyway(finalizeUserGroup(r4.c, defaults, r4.monitor))

\* a finalizeMonitor that resolves the user group first
finalizeMonitorUserGroupFirst(c, defaults, monitor) ==
    LET r1 == finalizeUserGroup(c, defaults, monitor)
        r2 == nextFinalizer(r1, finalizeLocationProfile(r1.c, defaults, r1.monitor))
        r3 == nextFinalizer(r2, finalizeNotificationProfile(r2.c, defaults, r2.monitor))
        r4 == nextFinalizer(r3, finalizeThresholdProfile(r3.c, defaults, r3.monitor))
    IN  nextFinalizer(r4, finalizeMonitorGroup(r4.c, defaults, r4.monitor))

\* builder.finalizeMonitor: the finalizers in the order newBuilder lists
\* them, up to the first one that fails
finalizeMonitor(c, defaults, monitor) ==
    LET r1 == finalizeLocationProfile(c, defaults, monitor)
        r2 == nextFinalizer(r1, finalizeNotificationProfile(r1.c, defaults, r1.monitor))
        r3 == nextFinalizer(r2, finalizeThresholdProfile(r2.c, defaults, r2.monitor))
        r4 == nextFinalizer(r3, finalizeMonitorGroup(r3.c, defaults, r3.monitor))
    IN  nextFinalizer(r4, finalizeUserGroup(r4.c, defaults, r4.monitor))

\* FromModel taking the operator's default before the annotation
FromModelDefaultsFirst(c, defaults, model) ==
    LET anno == model.Annotations
        pick(default, key) == IF default # <<>> THEN default
                              ELSE StringValue(anno, key, default)
        headers == ParseJSON(anno, AnnotationSite24x7CustomHeaders)
        actions == ParseJSON(anno, AnnotationSite24x7Actions)
        monitor ==
            [Type |-> TypeURL, MonitorID |-> model.ID, DisplayName |-> model.Name,
             Website |-> model.URL,
             MatchCase |-> BoolValueOr(anno, AnnotationSite24x7MatchCase,
                                       defaults.MatchCase),
             Timeout |-> IntValue(anno, AnnotationSite24x7Timeout, defaults.Timeout),
             UseNameServer |-> BoolValueOr(anno, AnnotationSite24x7UseNameServer,
                                           defaults.UseNameServer),
             UserGroupIDs |-> StringSliceValue(anno, AnnotationSite24x7UserGroupIDs,
                                               defaults.UserGroupIDs),
             MonitorGroups |-> StringSliceValue(anno, AnnotationSite24x7MonitorGroupIDs,
                                                defaults.MonitorGroupIDs),
             LocationProfileID |-> pick(defaults.LocationProfileID,
                                        AnnotationSite24x7LocationProfileID),
             NotificationProfileID |-> pick(defaults.NotificationProfileID,
                                            AnnotationSite24x7NotificationProfileID),
             ThresholdProfileID |-> pick(defaults.ThresholdProfileID,
                                         AnnotationSite24x7ThresholdProfileID),
             CustomHeaders |-> IF headers.found THEN headers.value
                               ELSE defaults.CustomHeaders,
             ActionIDs |-> IF actions.found THEN actions.value ELSE defaults.Actions]
    IN  IF headers.err # Nil THEN Finalized(c, NoSite24x7Monitor, headers.err)
        ELSE IF actions.err # Nil THEN Finalized(c, NoSite24x7Monitor, actions.err)
        ELSE finalizeMonitor(c, defaults, monitor)

\* builder.FromModel: [c, monitor, err]
FromModel(c, defaults, model) ==
    LET anno == model.Annotations
        headers == ParseJSON(anno, AnnotationSite24x7CustomHeaders)
        actions == ParseJSON(anno, AnnotationSite24x7Actions)
        monitor ==
            [Type |-> TypeURL, MonitorID |-> model.ID, DisplayName |-> model.Name,
             Website |-> model.URL,
             MatchCase |-> BoolValueOr(anno, AnnotationSite24x7MatchCase,
                                       defaults.MatchCase),
             Timeout |-> IntValue(anno, AnnotationSite24x7Timeout, defaults.Timeout),
             UseNameServer |-> BoolValueOr(anno, AnnotationSite24x7UseNameServer,
                                           defaults.UseNameServer),
             UserGroupIDs |-> StringSliceValue(anno, AnnotationSite24x7UserGroupIDs,
                                               defaults.UserGroupIDs),
             MonitorGroups |-> StringSliceValue(anno, AnnotationSite24x7MonitorGroupIDs,
                                                defaults.MonitorGroupIDs),
             LocationProfileID |-> StringValue(anno, AnnotationSite24x7LocationProfileID,
                                               defaults.LocationProfileID),
             NotificationProfileID |-> StringValue(anno,
                                                   AnnotationSite24x7NotificationProfileID,
                                                   defaults.NotificationProfileID),
             ThresholdProfileID |-> StringValue(anno, AnnotationSite24x7ThresholdProfileID,
                                                defaults.ThresholdProfileID),
             CustomHeaders |-> IF headers.found THEN headers.value
                               ELSE defaults.CustomHeaders,
             ActionIDs |-> IF actions.found THEN actions.value ELSE defaults.Actions]
    IN  IF headers.err # Nil THEN Finalized(c, NoSite24x7Monitor, headers.err)
        ELSE IF actions.err # Nil THEN Finalized(c, NoSite24x7Monitor, actions.err)
        ELSE finalizeMonitor(c, defaults, monitor)

ErrBuildFromModel(err) == <<"failed to build site24x7 monitor from model", err>>
ErrCreate(err) == <<"failed to create site24x7 monitor", err>>
ErrUpdate(err) == <<"failed to update site24x7 monitor", err>>

\* client.Monitors().Create and client.Monitors().Update: [c, err]; fault is
\* Nil, or the error the API answers the call with
clientMonitors(c, method, monitor, fault) ==
    [c |-> ClientCalled(c, [method |-> method, kind |-> "Monitors",
                           monitor |-> monitor, err |-> fault]),
     err |-> fault]

\* Provider.Create of the Site24x7 provider: [c, err]
site24x7Create(c, defaults, model, fault) ==
    LET b == FromModel(c, defaults, model)
    IN  IF b.err # Nil THEN [c |-> b.c, err |-> ErrBuildFromModel(b.err)]
        ELSE LET r == clientMonitors(b.c, "Create", b.monitor, fault)
             IN  IF r.err # Nil THEN [c |-> r.c, err |-> ErrCreate(r.err)]
                 ELSE [c |-> r.c, err |-> Nil]

\* Provider.Update of the Site24x7 provider: [c, err]
site24x7Update(c, defaults, model, fault) ==
    LET b == FromModel(c, defaults, model)
    IN  IF b.err # Nil THEN [c |-> b.c, err |-> ErrBuildFromModel(b.err)]
        ELSE LET r == clientMonitors(b.c, "Update", b.monitor, fault)
             IN  IF r.err # Nil THEN [c |-> r.c, err |-> ErrUpdate(r.err)]
                 ELSE [c |-> r.c, err |-> Nil]

-----------------------------------------------------------------------------
(* SpecSite24x7: Create and Update of the Site24x7 provider *)

OverrideID == <<"o">>
OverrideIDs == <<"o", ",", "p">>
DefaultID == <<"d">>
ListedIDs == <<<<"1">>, <<"2">>>>
JSONList == <<"[", "j", "]">>
JSONInvalid == <<"{", "j">>

\* How one field stands: whether the resource overrides it, whether the
\* operator set a default, whether its auto-discovery is on, and whether the
\* account lists candidates for it.
FieldCases ==
    {[override |-> TRUE, default |-> TRUE, auto |-> TRUE, listed |-> FALSE],
     [override |-> FALSE, default |-> TRUE, auto |-> TRUE, listed |-> TRUE],
     [override |-> FALSE, default |-> TRUE, auto |-> TRUE, listed |-> FALSE],
     [override |-> FALSE, default |-> FALSE, auto |-> TRUE, listed |-> TRUE],
     [override |-> FALSE, default |-> FALSE, auto |-> TRUE, listed |-> FALSE],
     [override |-> FALSE, default |-> FALSE, auto |-> FALSE, listed |-> TRUE]}

\* How the two JSON annotations stand: absent, a list, or not JSON
JSONCases ==
    {[headers |-> "absent", actions |-> "absent"],
     [headers |-> "list", actions |-> "list"],
     [headers |-> "invalid", actions |-> "absent"],
     [headers |-> "absent", actions |-> "invalid"],
     [headers |-> "list", actions |-> "invalid"]}

\* the annotation map of the entries of all whose value is not "absent"
AnnotationsOf(all) ==
    [k \in {key \in DOMAIN all : all[key] # <<"absent">>} |-> all[k]]

Site24x7Annotations(lo, no, th, mg, ug, js) ==
    LET id(f) == IF f.override THEN OverrideID ELSE <<"absent">>
        ids(f) == IF f.override THEN OverrideIDs ELSE <<"absent">>
        json(j) == IF j = "list" THEN JSONList
                   ELSE IF j = "invalid" THEN JSONInvalid
                   ELSE <<"absent">>
    IN  AnnotationsOf(
            [k \in {AnnotationSite24x7LocationProfileID,
                    AnnotationSite24x7NotificationProfileID,
                    AnnotationSite24x7ThresholdProfileID,
                    AnnotationSite24x7MonitorGroupIDs,
                    AnnotationSite24x7UserGroupIDs,
                    AnnotationSite24x7CustomHeaders,
                    AnnotationSite24x7Actions} |->
                CASE k = AnnotationSite24x7LocationProfileID -> id(lo)
                  [] k = AnnotationSite24x7NotificationProfileID -> id(no)
                  [] k = AnnotationSite24x7ThresholdProfileID -> id(th)
                  [] k = AnnotationSite24x7MonitorGroupIDs -> ids(mg)
                  [] k = AnnotationSite24x7UserGroupIDs -> ids(ug)
                  [] k = AnnotationSite24x7CustomHeaders -> json(js.headers)
                  [] OTHER -> json(js.actions)])

Site24x7Defaults(lo, no, th, mg, ug) ==
    LET id(f) == IF f.default THEN DefaultID ELSE <<>>
        ids(f) == IF f.default THEN <<DefaultID>> ELSE <<>>
    IN  MonitorDefaults(<<id(lo), id(no), id(th), ids(mg), ids(ug)>>,
                        <<lo.auto, no.auto, th.auto, mg.auto, ug.auto>>,
                        <<DefaultID>>, <<DefaultID>>)

Site24x7Account(lo, no, th, mg, ug) ==
    LET list(f) == IF f.listed THEN ListedIDs ELSE <<>>
    IN  Account(list(lo), list(no), list(th), list(mg), list(ug))

InitSite24x7 ==
    \E lo \in FieldCases, no \in FieldCases, th \in FieldCases,
       mg \in FieldCases, ug \in FieldCases, js \in JSONCases :
        /\ options = [NoDelete |-> FALSE,
                      MonitorDefaults |-> Site24x7Defaults(lo, no, th, mg, ug)]
        /\ monitors = <<>>
        /\ nextID = 1
        /\ ingress = Ingress([namespace |-> <<"k">>, name |-> <<"f">>],
                             Site24x7Annotations(lo, no, th, mg, ug, js),
                             <<HostA>>, <<>>)
        /\ last = NoCall
        /\ merge = NoMerge
        /\ account = Site24x7Account(lo, no, th, mg, ug)
        /\ provider = NoProviderState
        /\ now = 0
        /\ cluster = NoCluster
        /\ threads = NoThreads
        /\ published = <<>>

\* the service's createMonitor handing the resource's model to the provider
Site24x7CreateCall ==
    \E fault \in {Nil, ErrAPI} :
        \E r \in {site24x7Create(Client(account), options.MonitorDefaults,
                                 buildMonitorModel(ingress).monitor, fault)} :
            /\ last' = Call("Create", r.c.calls, r.err, FALSE, <<>>, NoAnswer)
            /\ UNCHANGED <<options, monitors, nextID, ingress, merge, account,
                        provider, now, cluster, threads, published>>

\* the service's updateMonitor handing the model with the ID of the
\* monitor it found to the provider
Site24x7UpdateCall ==
    \E fault \in {Nil, ErrAPI} :
        \E r \in {site24x7Update(Client(account), options.MonitorDefaults,
                                 [buildMonitorModel(ingress).monitor
                                     EXCEPT !.ID = ProviderID(1)], fault)} :
            /\ last' = Call("Update", r.c.calls, r.err, FALSE, <<>>, NoAnswer)
            /\ UNCHANGED <<options, monitors, nextID, ingress, merge, account,
                        provider, now, cluster, threads, published>>

NextSite24x7 == Site24x7CreateCall \/ Site24x7UpdateCall

SpecSite24x7 == InitSite24x7 /\ [][NextSite24x7]_vars

\* the annotation under key is present
Overridden(key) == key \in DOMAIN ingress.annotations

\* the API call that handed a monitor to Site24x7 in the last provider call
SentMonitor ==
    LET i == CHOOSE i \in 1..Len(last.calls) : last.calls[i].kind = "Monitors"
    IN  last.calls[i].monitor

MonitorSent == \E i \in 1..Len(last.calls) : last.calls[i].kind = "Monitors"

\* the list API of the kind was queried in the last provider call
Listed(kind) ==
    \E i \in 1..Len(last.calls) :
        last.calls[i].method = "List" /\ last.calls[i].kind = kind

\* the value of a field holding one ID: the override, else the default,
\* else the first listed candidate when auto-discovery is on
ResolvedID(key, default, auto, kind) ==
    IF Overridden(key) THEN ingress.annotations[key]
    ELSE IF default # <<>> THEN default
    ELSE IF auto /\ Len(account[kind]) > 0 THEN account[kind][1]
    ELSE <<>>

\* the value of a field holding a list of IDs, the override being the
\* comma-separated IDs
ResolvedIDs(key, default, auto, kind) ==
    IF Overridden(key)
    THEN LET v == ingress.annotations[key]
             commas == {i \in 1..Len(v) : v[i] = ","}
         IN  IF commas = {} THEN <<v>>
             ELSE LET c == CHOOSE c \in commas : \A d \in commas : c <= d
                  IN  <<SubSeq(v, 1, c - 1), SubSeq(v, c + 1, Len(v))>>
    ELSE IF default # <<>> THEN default
    ELSE IF auto /\ Len(account[kind]) > 0 THEN <<account[kind][1]>>
    ELSE <<>>

\* C19: in the monitor that Create or Update hands to the Site24x7 API,
\* each of the location, notification and threshold profile, the monitor
\* groups and the user groups is the annotation override when present, else
\* the operator's default when set, else the first candidate the account
\* lists when the field's auto-discovery is on; and the list API of a kind
\* is queried only when its field has neither override nor default and its
\* auto-discovery is on.
C19_FieldResolution ==
    LET d == options.MonitorDefaults
    IN  (last.op \in {"Create", "Update"} /\ MonitorSent) =>
            /\ SentMonitor.LocationProfileID =
                   ResolvedID(AnnotationSite24x7LocationProfileID,
                              d.LocationProfileID, d.AutoLocationProfile,
                              "LocationProfiles")
            /\ SentMonitor.NotificationProfileID =
                   ResolvedID(AnnotationSite24x7NotificationProfileID,
                              d.NotificationProfileID, d.AutoNotificationProfile,
                              "NotificationProfiles")
            /\ SentMonitor.ThresholdProfileID =
                   ResolvedID(AnnotationSite24x7ThresholdProfileID,
                              d.ThresholdProfileID, d.AutoThresholdProfile,
                              "ThresholdProfiles")
            /\ SentMonitor.MonitorGroups =
                   ResolvedIDs(AnnotationSite24x7MonitorGroupIDs,
                               d.MonitorGroupIDs, d.AutoMonitorGroup, "MonitorGroups")
            /\ SentMonitor.UserGroupIDs =
                   ResolvedIDs(AnnotationSite24x7UserGroupIDs,
                               d.UserGroupIDs, d.AutoUserGroup, "UserGroups")
            /\ Listed("LocationProfiles") <=>
                   (/\ ~Overridden(AnnotationSite24x7LocationProfileID)
                    /\ d.LocationProfileID = <<>>
                    /\ d.AutoLocationProfile)
            /\ Listed("NotificationProfiles") <=>
                   (/\ ~Overridden(AnnotationSite24x7NotificationProfileID)
                    /\ d.NotificationProfileID = <<>>
                    /\ d.AutoNotificationProfile)
            /\ Listed("ThresholdProfiles") <=>
                   (/\ ~Overridden(AnnotationSite24x7ThresholdProfileID)
                    /\ d.ThresholdProfileID = <<>>
                    /\ d.AutoThresholdProfile)
            /\ Listed("MonitorGroups") <=>
                   (/\ ~Overridden(AnnotationSite24x7MonitorGroupIDs)
                    /\ d.MonitorGroupIDs = <<>>
                    /\ d.AutoMonitorGroup)
            /\ Listed("UserGroups") <=>
                   (/\ ~Overridden(AnnotationSite24x7UserGroupIDs)
                    /\ d.UserGroupIDs = <<>>
                    /\ d.AutoUserGroup)

\* an Update sent a monitor whose location profile is the override (the
\* default and auto-discovery being set as well), whose notification
\* profile is the default, whose threshold profile is the first listed one
\* and whose user groups stayed empty
C19_Witness ==
    /\ last.op = "Update"
    /\ MonitorSent
    /\ options.MonitorDefaults.LocationProfileID = DefaultID
    /\ options.MonitorDefaults.AutoLocationProfile
    /\ SentMonitor.LocationProfileID = OverrideID
    /\ SentMonitor.NotificationProfileID = DefaultID
    /\ SentMonitor.ThresholdProfileID = <<"1">>
    /\ SentMonitor.MonitorGroups = <<<<"o">>, <<"p">>>>
    /\ SentMonitor.UserGroupIDs = <<>>

\* the annotation under key is present and is not the JSON text of a list
MalformedJSON(key) ==
    /\ Overridden(key)
    /\ ingress.annotations[key][1] # "["

\* auto-discovery is on for a field that has neither override nor default,
\* and the account lists no candidate of its kind
NothingToDiscover(key, default, auto, kind) ==
    /\ ~Overridden(key)
    /\ default = <<>>
    /\ auto
    /\ Len(account[kind]) = 0

ResolutionFails ==
    LET d == options.MonitorDefaults
    IN  \/ MalformedJSON(AnnotationSite24x7CustomHeaders)
        \/ MalformedJSON(AnnotationSite24x7Actions)
        \/ NothingToDiscover(AnnotationSite24x7LocationProfileID,
                             d.LocationProfileID, d.AutoLocationProfile,
                             "LocationProfiles")
        \/ NothingToDiscover(AnnotationSite24x7NotificationProfileID,
                             d.NotificationProfileID, d.AutoNotificationProfile,
                             "NotificationProfiles")
        \/ NothingToDiscover(AnnotationSite24x7ThresholdProfileID,
                             d.ThresholdProfileID, d.AutoThresholdProfile,
                             "ThresholdProfiles")
        \/ NothingToDiscover(AnnotationSite24x7MonitorGroupIDs,
                             d.MonitorGroupIDs, d.AutoMonitorGroup, "MonitorGroups")
        \/ NothingToDiscover(AnnotationSite24x7UserGroupIDs,
                             d.UserGroupIDs, d.AutoUserGroup, "UserGroups")

\* C20: when the resolution of the configuration fails (a custom-headers or
\* actions annotation that is present but is not JSON, or auto-discovery on
\* for a field without override and default while the account lists no
\* candidate), Create and Update of the provider return an error and hand
\* no monitor to the Site24x7 API.
C20_NoCallOnResolutionFailure ==
    (last.op \in {"Create", "Update"} /\ ResolutionFails) =>
        /\ last.err # Nil
        /\ last.err[1] = "failed to build site24x7 monitor from model"
        /\ ~MonitorSent

\* a Create failed on the user groups, the last field resolved, after three
\* other fields had been discovered
C20_Witness ==
    /\ last.op = "Create"
    /\ last.err = ErrBuildFromModel(ErrNoUserGroups)
    /\ Listed("LocationProfiles")
    /\ Listed("NotificationProfiles")
    /\ Listed("ThresholdProfiles")
    /\ ~MonitorSent

-----------------------------------------------------------------------------
(* SpecTyped: Create and Update of the Site24x7 provider for resources with
   boolean, integer and list annotations *)

StrFive == <<"5">>
StrNoValue == <<"x">>
DefaultTimeout == 10

\* the match-case, timeout and user-group annotations, each absent, well
\* formed or not of its type
TypedAnnotations ==
    {AnnotationsOf(
        [k \in {AnnotationSite24x7MatchCase, AnnotationSite24x7Timeout,
                AnnotationSite24x7UserGroupIDs} |->
            CASE k = AnnotationSite24x7MatchCase -> mc
              [] k = AnnotationSite24x7Timeout -> t
              [] OTHER -> ug]) :
        mc \in {<<"absent">>, StrTrue, StrFalse, StrNoValue},
        t \in {<<"absent">>, StrFive, StrNoValue},
        ug \in {<<"absent">>, OverrideIDs}}

\* operator defaults that differ from the zero values, or do not
TypedDefaults ==
    {[MonitorDefaults(<<<<>>, <<>>, <<>>, <<>>, <<>>>>,
                      <<FALSE, FALSE, FALSE, FALSE, FALSE>>, <<>>, <<>>)
         EXCEPT !.MatchCase = mc, !.Timeout = t] :
        mc \in BOOLEAN, t \in {0, DefaultTimeout}}

InitTyped ==
    /\ options \in {[NoDelete |-> FALSE, MonitorDefaults |-> d] : d \in TypedDefaults}
    /\ monitors = <<>>
    /\ nextID = 1
    /\ ingress \in {Ingress([namespace |-> <<"k">>, name |-> <<"f">>], a,
                            <<HostA>>, <<>>) : a \in TypedAnnotations}
    /\ last = NoCall
    /\ merge = NoMerge
    /\ account = NoAccount
    /\ provider = NoProviderState
    /\ now = 0
    /\ cluster = NoCluster
    /\ threads = NoThreads
    /\ published = <<>>

NextTyped == Site24x7CreateCall \/ Site24x7UpdateCall

SpecTyped == InitTyped /\ [][NextTyped]_vars

\* the annotation under key is present and is neither true nor false
MalformedBool(key) ==
    /\ Overridden(key)
    /\ ingress.annotations[key] \notin {StrTrue, StrFalse, StrOne, StrZero}

\* the annotation under key is present and is not a decimal number
MalformedInt(key) ==
    /\ Overridden(key)
    /\ \/ ingress.annotations[key] = <<>>
       \/ \E i \in 1..Len(ingress.annotations[key]) :
              ingress.annotations[key][i] \notin Range(Digits)

\* C21: when a boolean or integer annotation is present but malformed,
\* Create and Update of the provider fail with the error of the resolution
\* and hand no monitor to the Site24x7 API; the operator's default is never
\* taken in its place.
C21_MalformedTypedFails ==
    (/\ last.op \in {"Create", "Update"}
     /\ \/ MalformedBool(AnnotationSite24x7MatchCase)
        \/ MalformedInt(AnnotationSite24x7Timeout)) =>
        /\ last.err # Nil
        /\ last.err[1] = "failed to build site24x7 monitor from model"
        /\ ~MonitorSent

\* ---------------------------------------------------------------------
\* The Site24x7 provider's lookup of the source ranges of a location
\* profile, with its expiring cache
\* ---------------------------------------------------------------------

\* the clock is not advanced beyond this time, in hours
MaxNow == 36

\* 24*time.Hour, in hours
TTL == 24

\* a cache that never lets an entry expire
cacheGetIgnoresExpiry(entries, key, t) ==
    IF key \in DOMAIN entries
    THEN [value |-> entries[key].value, ok |-> TRUE]
    ELSE [value |-> <<>>, ok |-> FALSE]

\* sourceRangeCache.Get(key) at time t: an entry is only returned before the
\* time it expires at: [value, ok]
cacheGet(entries, key, t) ==
    IF key \in DOMAIN entries /\ t < entries[key].expiry
    THEN [value |-> entries[key].value, ok |-> TRUE]
    ELSE [value |-> <<>>, ok |-> FALSE]

\* a Set that adds the value to the list the key has
cacheSetMixes(entries, key, value, ttl, t) ==
    [k \in DOMAIN entries \cup {key} |->
        IF k = key
        THEN [value |-> IF key \in DOMAIN entries
                        THEN entries[key].value \o value ELSE value,
              expiry |-> t + ttl]
        ELSE entries[k]]

\* sourceRangeCache.Set(key, value, ttl) at time t
cacheSet(entries, key, value, ttl, t) ==
    [k \in DOMAIN entries \cup {key} |->
        IF k = key THEN [value |-> value, expiry |-> t + ttl] ELSE entries[k]]

StrSlash32 == <<"/", "3", "2">>

\* getProfileIPProvider: the ProfileIPProvider is only created, with calls to
\* the API, when the field is not set yet: [ps, c, err]
getProfileIPProvider(ps, c, fault) ==
    IF ~ps.ipProvider
    THEN [ps |-> [ps EXCEPT !.ipProvider = (fault = Nil)],
          c |-> ClientCalled(c, [method |-> "NewDefaultProfileIPProvider",
                                 kind |-> "Locations"]),
          err |-> fault]
    ELSE [ps |-> ps, c |-> c, err |-> Nil]

\* what GetIPSourceRanges returns: the Provider's fields, the client with
\* the calls made, the source ranges and the error
Ranges(ps, c, ranges, err) == [ps |-> ps, c |-> c, ranges |-> ranges, err |-> err]

\* a GetIPSourceRanges that caches the empty list when the lookup of the
\* addresses fails
site24x7GetIPSourceRangesCachesFailure(ps, c, defaults, model, t, fault, answer) ==
    LET b == FromModel(c, defaults, model)
        id == b.monitor.LocationProfileID
        cached == cacheGet(ps.sourceRangeCache, id, t)
        i == getProfileIPProvider(ps, b.c, fault)
        g == ClientCalled(i.c, [method |-> "Get", kind |-> "LocationProfiles",
                                id |-> id])
        sourceRanges == [n \in 1..Len(answer.ips) |-> answer.ips[n] \o StrSlash32]
    IN  IF b.err # Nil THEN Ranges(ps, b.c, <<>>, b.err)
        ELSE IF cached.ok THEN Ranges(ps, b.c, cached.value, Nil)
        ELSE IF i.err # Nil THEN Ranges(i.ps, i.c, <<>>, i.err)
        ELSE IF answer.profile # Nil THEN Ranges(i.ps, g, <<>>, answer.profile)
        ELSE Ranges([i.ps EXCEPT !.sourceRangeCache =
                        cacheSet(@, id, sourceRanges, TTL, t)],
                    g, sourceRanges, answer.err)

\* Provider.GetIPSourceRanges at time t; fault is the error of the creation
\* of the ProfileIPProvider and answer what the API has for the profile
site24x7GetIPSourceRanges(ps, c, defaults, model, t, fault, answer) ==
    LET b == FromModel(c, defaults, model)
        id == b.monitor.LocationProfileID
        cached == cacheGet(ps.sourceRangeCache, id, t)
        i == getProfileIPProvider(ps, b.c, fault)
        g == ClientCalled(i.c, [method |-> "Get", kind |-> "LocationProfiles",
                                id |-> id])
        sourceRanges == [n \in 1..Len(answer.ips) |-> answer.ips[n] \o StrSlash32]
    IN  IF b.err # Nil THEN Ranges(ps, b.c, <<>>, b.err)
        ELSE IF cached.ok THEN Ranges(ps, b.c, cached.value, Nil)
        ELSE IF i.err # Nil THEN Ranges(i.ps, i.c, <<>>, i.err)
        ELSE IF answer.profile # Nil THEN Ranges(i.ps, g, <<>>, answer.profile)
        ELSE IF answer.err # Nil THEN Ranges(i.ps, g, <<>>, answer.err)
        ELSE Ranges([i.ps EXCEPT !.sourceRangeCache =
                        cacheSet(@, id, sourceRanges, TTL, t)],
                    g, sourceRanges, Nil)

IPx == <<"7">>
IPy == <<"8">>

\* what the API has for a location profile: the error of the lookup of the
\* profile, the addresses of its locations, the error of their lookup
CacheAnswers ==
    {[profile |-> Nil, ips |-> ips, err |-> Nil] : ips \in {<<IPx>>, <<IPy, IPx>>}}
    \cup {[profile |-> ErrAPI, ips |-> <<>>, err |-> Nil],
          [profile |-> Nil, ips |-> <<>>, err |-> ErrAPI]}

\* resources with and without a location profile of their own
CacheIngresses ==
    {Ingress([namespace |-> <<"k">>, name |-> <<"f">>], a, <<HostA>>, <<>>) :
        a \in {AnnotationsOf([k \in {AnnotationSite24x7LocationProfileID} |-> v]) :
                  v \in {<<"absent">>, OverrideID}}}

\* the location profile is a default of the operator or discovered in the
\* account; the other profiles and groups are defaults
CacheFieldCases ==
    {[override |-> FALSE, default |-> TRUE, auto |-> FALSE, listed |-> TRUE],
     [override |-> FALSE, default |-> FALSE, auto |-> TRUE, listed |-> TRUE]}

InitCache ==
    \E lo \in CacheFieldCases :
        \E d \in {[override |-> FALSE, default |-> TRUE, auto |-> FALSE,
                   listed |-> TRUE]} :
            /\ options = [NoDelete |-> FALSE,
                          MonitorDefaults |-> Site24x7Defaults(lo, d, d, d, d)]
            /\ monitors = <<>>
            /\ nextID = 1
            /\ ingress = NoIngress
            /\ last = NoCall
            /\ merge = NoMerge
            /\ account = Site24x7Account(lo, d, d, d, d)
            /\ provider = NoProviderState
            /\ now = 0
            /\ cluster = NoCluster
            /\ threads = NoThreads
            /\ published = <<>>

\* the service's GetProviderIPSourceRanges handing the resource's model to
\* the provider
Site24x7GetIPSourceRangesCall ==
    \E ing \in CacheIngresses, fault \in {Nil, ErrAPI}, answer \in CacheAnswers :
        \E r \in {site24x7GetIPSourceRanges(provider, Client(account),
                                            options.MonitorDefaults,
                                            buildMonitorModel(ing).monitor,
                                            now, fault, answer)} :
            /\ ingress' = ing
            /\ provider' = r.ps
            /\ last' = Call("GetIPSourceRanges", r.c.calls, r.err, FALSE,
                            r.ranges, answer)
            /\ UNCHANGED <<options, monitors, nextID, merge, account, now,
                           cluster, threads, published>>

\* the clock advances in steps of half a day
TickLength == TTL \div 2

\* time passes
Tick ==
    /\ now + TickLength <= MaxNow
    /\ now' = now + TickLength
    /\ UNCHANGED <<options, monitors, nextID, ingress, last, merge, account,
                   provider, cluster, threads, published>>

NextCache == Site24x7GetIPSourceRangesCall \/ Tick

SpecCache == InitCache /\ [][NextCache]_vars

\* the location profile the lookup for the resource of the last call was for
LookedUp ==
    IF AnnotationSite24x7LocationProfileID \in DOMAIN ingress.annotations
    THEN ingress.annotations[AnnotationSite24x7LocationProfileID]
    ELSE IF options.MonitorDefaults.LocationProfileID # <<>>
         THEN options.MonitorDefaults.LocationProfileID
         ELSE account.LocationProfiles[1]

\* the cache holds source ranges for the profile that have not expired
Fresh(id) ==
    /\ id \in DOMAIN provider.sourceRangeCache
    /\ now < provider.sourceRangeCache[id].expiry

\* the calls that fetch the source ranges of a profile
Fetches(calls) ==
    {n \in 1..Len(calls) :
        calls[n].method \in {"Get", "NewDefaultProfileIPProvider"}}

\* C22 (as stated): a lookup for a location profile whose source ranges were
\* fetched less than 24 hours ago returns the list fetched then and makes
\* no call to the provider's API at all.
C22_CachedWithoutAPICall ==
    [][(/\ last'.op = "GetIPSourceRanges"
        /\ now' = now
        /\ Fresh(LookedUp')) =>
           /\ last'.err = Nil
           /\ last'.ranges = provider.sourceRangeCache[LookedUp'].value
           /\ last'.calls = <<>>]_vars

\* C22 (amended): a lookup for a location profile whose source ranges were
\* fetched less than 24 hours ago returns the list fetched then without
\* fetching the profile or its addresses again, and leaves the cache alone;
\* any other lookup fetches from the provider, and when it succeeds what it
\* returns is cached for 24 hours from then.  The calls that discover the
\* profiles and groups of the account are made by every lookup.
C22_CachedWithoutFetch ==
    [][(/\ last'.op = "GetIPSourceRanges"
        /\ now' = now) =>
           IF Fresh(LookedUp')
           THEN /\ last'.err = Nil
                /\ last'.ranges = provider.sourceRangeCache[LookedUp'].value
                /\ Fetches(last'.calls) = {}
                /\ provider' = provider
           ELSE /\ Fetches(last'.calls) # {}
                /\ last'.err = Nil =>
                       provider'.sourceRangeCache[LookedUp'] =
                           [value |-> last'.ranges, expiry |-> now + TTL]]_vars

\* C22 witness: half a day after the fetch a lookup is answered from the
\* cache while the API would have failed
C22_Witness ==
    /\ last.op = "GetIPSourceRanges"
    /\ now = TTL \div 2
    /\ last.answer.profile # Nil
    /\ last.err = Nil
    /\ last.ranges # <<>>
    /\ Fetches(last.calls) = {}

\* ---------------------------------------------------------------------
\* The Site24x7 provider's Get and Delete by display name
\* ---------------------------------------------------------------------

ErrList(err) == <<"failed to list site24x7 monitors", err>>
ErrDelete(err) == <<"failed to delete site24x7 monitor with ID", err>>

\* a monitor as the Site24x7 API lists it
Site24x7Monitor(id, name, website) ==
    [MonitorID |-> id, DisplayName |-> name, Website |-> website]

\* what Provider.Get returns, with the client and the calls made
Got(c, monitor, err) == [c |-> c, monitor |-> monitor, err |-> err]

\* a Get that returns the last monitor with the name
site24x7GetLastNamed(c, listed, name, fault) ==
    LET l == ClientCalled(c, [method |-> "List", kind |-> "Monitors"])
        named == {i \in 1..Len(listed) : listed[i].DisplayName = name}
    IN  IF fault # Nil THEN Got(l, NoMonitor, ErrList(fault))
        ELSE IF named = {} THEN Got(l, NoMonitor, ErrMonitorNotFound)
        ELSE LET i == CHOOSE i \in named : \A j \in named : j <= i
             IN  Got(l, Monitor(listed[i].MonitorID, listed[i].DisplayName,
                                listed[i].Website, NoAnnotations), Nil)

RECURSIVE site24x7Scan(_, _, _)
\* the loop of Provider.Get over the listed monitors from index i on: the
\* index of the monitor it returns, or 0
site24x7Scan(listed, name, i) ==
    IF i > Len(listed) THEN 0
    ELSE IF listed[i].DisplayName # name THEN site24x7Scan(listed, name, i + 1)
    ELSE i

\* Provider.Get; listed are the monitors of the account and fault the error
\* of client.Monitors().List()
site24x7Get(c, listed, name, fault) ==
    LET l == ClientCalled(c, [method |-> "List", kind |-> "Monitors"])
        i == site24x7Scan(listed, name, 1)
    IN  IF fault # Nil THEN Got(l, NoMonitor, ErrList(fault))
        ELSE IF i = 0 THEN Got(l, NoMonitor, ErrMonitorNotFound)
        ELSE Got(l, Monitor(listed[i].MonitorID, listed[i].DisplayName,
                            listed[i].Website, NoAnnotations), Nil)

\* Provider.Delete; fault is the error of client.Monitors().List() and
\* deleteFault the error of client.Monitors().Delete(): [c, err]
site24x7Delete(c, listed, name, fault, deleteFault) ==
    LET g == site24x7Get(c, listed, name, fault)
        d == ClientCalled(g.c, [method |-> "Delete", kind |-> "Monitors",
                                id |-> g.monitor.ID])
    IN  IF g.err # Nil THEN [c |-> g.c, err |-> g.err]
        ELSE IF deleteFault # Nil THEN [c |-> d, err |-> ErrDelete(deleteFault)]
        ELSE [c |-> d, err |-> Nil]

\* the most monitors the account lists
MaxListed == 3

NameFoo == <<"f", "o", "o">>
NameBar == <<"b", "a", "r">>
NameBaz == <<"b", "a", "z">>

\* the monitors an account can list: the n-th has the n-th ID and its own
\* website, display names may repeat
ListedMonitors ==
    UNION {{[i \in 1..n |-> Site24x7Monitor(ProviderID(i), names[i],
                                            <<"u">> \o ProviderID(i))] :
               names \in [1..n -> {NameFoo, NameBar}]} : n \in 0..MaxListed}

InitLookup ==
    /\ options = [NoDelete |-> FALSE]
    /\ monitors \in ListedMonitors
    /\ nextID = 1
    /\ ingress = NoIngress
    /\ last = NoCall
    /\ merge = NoMerge
    /\ account = NoAccount
    /\ provider = NoProviderState
    /\ now = 0
    /\ cluster = NoCluster
    /\ threads = NoThreads
    /\ published = <<>>

\* what a Get or Delete was asked and what it returned
Lookup(name, fault, monitor) == [name |-> name, fault |-> fault, monitor |-> monitor]

\* the service asking the provider for the monitor of a name
Site24x7GetCall ==
    \E name \in {NameFoo, NameBar, NameBaz}, fault \in {Nil, ErrAPI} :
        \E r \in {site24x7Get(Client(account), monitors, name, fault)} :
            /\ last' = Call("Get", r.c.calls, r.err, FALSE, <<>>,
                            Lookup(name, fault, r.monitor))
            /\ UNCHANGED <<options, monitors, nextID, ingress, merge, account,
                           provider, now, cluster, threads, published>>

\* the service asking the provider to delete the monitor of a name; the API
\* drops the monitor whose ID a Delete without error names
Site24x7DeleteCall ==
    \E name \in {NameFoo, NameBar, NameBaz}, fault \in {Nil, ErrAPI},
       deleteFault \in {Nil, ErrAPI} :
        \E r \in {site24x7Delete(Client(account), monitors, name, fault, deleteFault)} :
            /\ last' = Call("Delete", r.c.calls, r.err, FALSE, <<>>,
                            Lookup(name, fault, NoMonitor))
            /\ monitors' =
                   IF r.err # Nil THEN monitors
                   ELSE LET id == r.c.calls[Len(r.c.calls)].id
                        IN  SelectSeq(monitors, LAMBDA m : m.MonitorID # id)
            /\ UNCHANGED <<options, nextID, ingress, merge, account, provider,
                           now, cluster, threads, published>>

NextLookup == Site24x7GetCall \/ Site24x7DeleteCall

SpecLookup == InitLookup /\ [][NextLookup]_vars

\* the monitors of the account that have the name the last call asked for
Named == {i \in 1..Len(monitors) : monitors[i].DisplayName = last'.answer.name}

\* the delete calls among the calls
Deletes(calls) == {n \in 1..Len(calls) : calls[n].method = "Delete"}

\* C23: when the account's monitors are listed without error, the Site24x7
\* provider's Get returns ErrMonitorNotFound exactly when none has the
\* display name, and else the ID, name and URL of the first that has it;
\* Delete returns ErrMonitorNotFound without a delete call when none has the
\* name, and else makes exactly one delete call, with the ID of the first
\* monitor that has it.
C23_GetAndDeleteByName ==
    [][(last'.op \in {"Get", "Delete"} /\ last'.answer.fault = Nil) =>
        /\ (last'.err = ErrMonitorNotFound) <=> (Named = {})
        /\ (last'.op = "Get" /\ Named # {}) =>
               \E i \in Named :
                   /\ \A j \in Named : i <= j
                   /\ last'.err = Nil
                   /\ last'.answer.monitor.ID = monitors[i].MonitorID
                   /\ last'.answer.monitor.Name = monitors[i].DisplayName
                   /\ last'.answer.monitor.URL = monitors[i].Website
        /\ (last'.op = "Delete" /\ Named = {}) => Deletes(last'.calls) = {}
        /\ (last'.op = "Delete" /\ Named # {}) =>
               \E i \in Named, n \in 1..Len(last'.calls) :
                   /\ \A j \in Named : i <= j
                   /\ Deletes(last'.calls) = {n}
                   /\ last'.calls[n].id = monitors[i].MonitorID]_vars

\* C23 witness: the first of two monitors with the same name was deleted
C23_Witness ==
    /\ last.op = "Delete"
    /\ last.err = Nil
    /\ Len(monitors) = MaxListed - 1
    /\ \E i \in 1..Len(monitors) :
           /\ monitors[i].DisplayName = last.answer.name
           /\ monitors[i].MonitorID = ProviderID(MaxListed)

\* ---------------------------------------------------------------------
\* The reconciler: Reconcile, handleCreateOrUpdate, reconcileAnnotations
\* ---------------------------------------------------------------------

\* the request reconciled
ReqMeta == [namespace |-> <<"k">>, name |-> <<"b">>]

\* a call of a method of the monitor service or of the cluster client with
\* the ingress object handed to it
Invoked(calls, method, ing) == Append(calls, [method |-> method, ingress |-> ing])

\* what the monitor service and the cluster answer during one Reconcile: the
\* error of the client's Get besides not found, updated and error of
\* AnnotateIngress with the source ranges it patches in, and the errors of
\* the client's Update, of EnsureMonitor and of DeleteMonitor
ServiceAnswers ==
    [get : {Nil, ErrAPI},
     annotate : {[updated |-> FALSE, err |-> Nil], [updated |-> TRUE, err |-> Nil],
                 [updated |-> FALSE, err |-> ErrAPI]},
     patch : {<<"7">>},
     update : {Nil, ErrTransport},
     ensure : {Nil, ErrAPI},
     delete : {Nil, ErrAPI}]

\* what a step of Reconcile returns: the calls made so far, the object the
\* cluster holds, updated and the error
Reconciled(calls, cl, updated, err) ==
    [calls |-> calls, cluster |-> cl, updated |-> updated, err |-> err]

\* a reconcileAnnotations that goes on when the cluster refuses the Update
reconcileAnnotationsDropsUpdateError(cl, ing, a) ==
    LET ingressCopy == IF a.annotate.updated
                       THEN [ing EXCEPT !.annotations =
                                SetAnnotation(@, nginxWhitelistSourceRangeAnnotation,
                                              a.patch)]
                       ELSE ing
        annotated == Invoked(<<>>, "AnnotateIngress", ing)
        updated == Invoked(annotated, "Update", ingressCopy)
    IN  IF a.annotate.err # Nil \/ ~a.annotate.updated
        THEN Reconciled(annotated, cl, FALSE, a.annotate.err)
        ELSE Reconciled(updated, cl, FALSE, Nil)

\* reconcileAnnotations: AnnotateIngress on a copy, and the Update of the
\* cluster's object with the copy when it was patched
reconcileAnnotations(cl, ing, a) ==
    LET ingressCopy == IF a.annotate.updated
                       THEN [ing EXCEPT !.annotations =
                                SetAnnotation(@, nginxWhitelistSourceRangeAnnotation,
                                              a.patch)]
                       ELSE ing
        annotated == Invoked(<<>>, "AnnotateIngress", ing)
        updated == Invoked(annotated, "Update", ingressCopy)
    IN  IF a.annotate.err # Nil \/ ~a.annotate.updated
        THEN Reconciled(annotated, cl, FALSE, a.annotate.err)
        ELSE IF a.update # Nil THEN Reconciled(updated, cl, FALSE, a.update)
        ELSE Reconciled(updated, [cl EXCEPT !.object = ingressCopy], TRUE, Nil)

\* an EnsureMonitor in the reconcile in which the ingress was updated
handleCreateOrUpdateEnsuresAnyway(cl, ing, a) ==
    LET r == reconcileAnnotations(cl, ing, a)
    IN  IF r.err # Nil THEN r
        ELSE Reconciled(Invoked(r.calls, "EnsureMonitor", r.cluster.object),
                        r.cluster, r.updated, a.ensure)

\* a handleCreateOrUpdate that leaves the monitor to a later reconcile
handleCreateOrUpdateNeverEnsures(cl, ing, a) == reconcileAnnotations(cl, ing, a)

\* handleCreateOrUpdate
handleCreateOrUpdate(cl, ing, a) ==
    LET r == reconcileAnnotations(cl, ing, a)
    IN  IF r.err # Nil \/ r.updated THEN r
        ELSE Reconciled(Invoked(r.calls, "EnsureMonitor", ing), r.cluster,
                        FALSE, a.ensure)

\* what Reconcile returns, with the calls it made and the cluster's object
Result(requeueAfter, r) ==
    [RequeueAfter |-> requeueAfter, calls |-> r.calls, cluster |-> r.cluster,
     err |-> r.err]

\* a Reconcile for which any value of the enabled annotation enables
ReconcileAnyValueEnables(req, cl, creationDelay, t, a) ==
    LET ing == cl.object
        createAfter == (cl.creationTimestamp + creationDelay) - t
        deleted == Ingress(req, NoAnnotations, <<>>, <<>>)
    IN  IF a.get # Nil THEN Result(0, Reconciled(<<>>, cl, FALSE, a.get))
        ELSE IF ~cl.exists
        THEN Result(0, Reconciled(Invoked(<<>>, "DeleteMonitor", deleted), cl,
                                  FALSE, a.delete))
        ELSE IF AnnotationValue(ing.annotations, AnnotationEnabled) # <<>>
        THEN IF createAfter > 0
             THEN Result(createAfter, Reconciled(<<>>, cl, FALSE, Nil))
             ELSE Result(0, handleCreateOrUpdate(cl, ing, a))
        ELSE Result(0, Reconciled(Invoked(<<>>, "DeleteMonitor", ing), cl,
                                  FALSE, a.delete))

\* a Reconcile without the creation delay
ReconcileIgnoresDelay(req, cl, creationDelay, t, a) ==
    LET ing == cl.object
        deleted == Ingress(req, NoAnnotations, <<>>, <<>>)
    IN  IF a.get # Nil THEN Result(0, Reconciled(<<>>, cl, FALSE, a.get))
        ELSE IF ~cl.exists
        THEN Result(0, Reconciled(Invoked(<<>>, "DeleteMonitor", deleted), cl,
                                  FALSE, a.delete))
        ELSE IF AnnotationValue(ing.annotations, AnnotationEnabled) = StrTrue
        THEN Result(0, handleCreateOrUpdate(cl, ing, a))
        ELSE Result(0, Reconciled(Invoked(<<>>, "DeleteMonitor", ing), cl,
                                  FALSE, a.delete))

\* a Reconcile that leaves the monitor of an ingress that is not enabled
ReconcileKeepsDisabled(req, cl, creationDelay, t, a) ==
    LET ing == cl.object
        createAfter == (cl.creationTimestamp + creationDelay) - t
        deleted == Ingress(req, NoAnnotations, <<>>, <<>>)
    IN  IF a.get # Nil THEN Result(0, Reconciled(<<>>, cl, FALSE, a.get))
        ELSE IF ~cl.exists
        THEN Result(0, Reconciled(Invoked(<<>>, "DeleteMonitor", deleted), cl,
                                  FALSE, a.delete))
        ELSE IF AnnotationValue(ing.annotations, AnnotationEnabled) = StrTrue
        THEN IF createAfter > 0
             THEN Result(createAfter, Reconciled(<<>>, cl, FALSE, Nil))
             ELSE Result(0, handleCreateOrUpdate(cl, ing, a))
        ELSE Result(0, Reconciled(<<>>, cl, FALSE, Nil))

\* Reconcile of the request req at time t
Reconcile(req, cl, creationDelay, t, a) ==
    LET ing == cl.object
        createAfter == (cl.creationTimestamp + creationDelay) - t
        deleted == Ingress(req, NoAnnotations, <<>>, <<>>)
    IN  IF a.get # Nil THEN Result(0, Reconciled(<<>>, cl, FALSE, a.get))
        ELSE IF ~cl.exists
        THEN Result(0, Reconciled(Invoked(<<>>, "DeleteMonitor", deleted), cl,
                                  FALSE, a.delete))
        ELSE IF AnnotationValue(ing.annotations, AnnotationEnabled) = StrTrue
        THEN IF createAfter > 0
             THEN Result(createAfter, Reconciled(<<>>, cl, FALSE, Nil))
             ELSE Result(0, handleCreateOrUpdate(cl, ing, a))
        ELSE Result(0, Reconciled(Invoked(<<>>, "DeleteMonitor", ing), cl,
                                  FALSE, a.delete))

StrTrueCapital == <<"T", "r", "u", "e">>

\* the objects applied under the request's name: the enabled annotation
\* absent, "true" or "True"
ReconcileIngresses ==
    {Ingress(ReqMeta, AnnotationsOf([k \in {AnnotationEnabled} |-> v]), <<HostA>>, <<>>) :
        v \in {<<"absent">>, StrTrue, StrTrueCapital}}

\* the values of --creation-delay
CreationDelays == {0, TickLength}

\* what a Reconcile was given and what it returned: the cluster's answer to
\* the Get, the time, AnnotateIngress's answer, and RequeueAfter
Reconciliation(cl, a, t, requeueAfter) ==
    [exists |-> cl.exists /\ a.get = Nil, get |-> a.get,
     creationTimestamp |-> cl.creationTimestamp, at |-> t,
     annotate |-> a.annotate, RequeueAfter |-> requeueAfter]

\* no Reconcile yet
NoReconcile ==
    Call("none", <<>>, Nil, FALSE, <<>>,
         Reconciliation(NoCluster, [get |-> Nil,
                                    annotate |-> [updated |-> FALSE, err |-> Nil]],
                        0, 0))

InitReconcile ==
    /\ options \in [NoDelete : {FALSE}, CreationDelay : CreationDelays]
    /\ monitors = <<>>
    /\ nextID = 1
    /\ ingress = NoIngress
    /\ last = NoReconcile
    /\ merge = NoMerge
    /\ account = NoAccount
    /\ provider = NoProviderState
    /\ now = 0
    /\ cluster = NoCluster
    /\ threads = NoThreads
    /\ published = <<>>

\* an ingress is created under the request's name, or the one there changed
IngressApplied ==
    \E ing \in ReconcileIngresses :
        /\ cluster' = Cluster(TRUE, ing, IF cluster.exists
                                         THEN cluster.creationTimestamp ELSE now)
        /\ UNCHANGED <<options, monitors, nextID, ingress, last, merge, account,
                       provider, now, threads, published>>

\* the ingress is deleted
IngressDeleted ==
    /\ cluster.exists
    /\ cluster' = NoCluster
    /\ UNCHANGED <<options, monitors, nextID, ingress, last, merge, account,
                   provider, now, threads, published>>

\* the controller reconciling the request
ReconcileCall ==
    \E a \in ServiceAnswers :
        \E r \in {Reconcile(ReqMeta, cluster, options.CreationDelay, now, a)} :
            /\ ingress' = cluster.object
            /\ cluster' = r.cluster
            /\ last' = Call("Reconcile", r.calls, r.err, FALSE, <<>>,
                            Reconciliation(cluster, a, now, r.RequeueAfter))
            /\ UNCHANGED <<options, monitors, nextID, merge, account, provider,
                           now, threads, published>>

NextReconcile == ReconcileCall \/ IngressApplied \/ IngressDeleted \/ Tick

SpecReconcile == InitReconcile /\ [][NextReconcile]_vars

\* the calls of a method during the last Reconcile
Invocations(method) == {n \in 1..Len(last.calls) : last.calls[n].method = method}

\* the last call was a Reconcile that the cluster answered without error
\* other than not found
Reconciling == last.op = "Reconcile" /\ last.answer.get = Nil

\* the ingress reconciled is in the cluster with the enabled annotation "true"
EnabledIngress ==
    /\ last.answer.exists
    /\ AnnotationEnabled \in DOMAIN ingress.annotations
    /\ ingress.annotations[AnnotationEnabled] = <<"t", "r", "u", "e">>

\* C24: when the ingress is gone from the cluster or is there without the
\* enabled annotation being exactly "true", Reconcile calls DeleteMonitor
\* with an object of the request's name and namespace, and nothing else of
\* the monitor service; when the ingress is there with enabled "true" it
\* never calls DeleteMonitor, and it calls EnsureMonitor when
\* AnnotateIngress returned no update and no error.
C24_DeleteOrEnsure ==
    Reconciling =>
        /\ ~EnabledIngress =>
               /\ Len(last.calls) = 1
               /\ last.calls[1].method = "DeleteMonitor"
               /\ last.calls[1].ingress.name = ReqMeta.name
               /\ last.calls[1].ingress.namespace = ReqMeta.namespace
        /\ EnabledIngress =>
               /\ Invocations("DeleteMonitor") = {}
               /\ (/\ Invocations("AnnotateIngress") # {}
                   /\ last.answer.annotate = [updated |-> FALSE, err |-> Nil]) =>
                      /\ Cardinality(Invocations("EnsureMonitor")) = 1
                      /\ \A n \in Invocations("EnsureMonitor") :
                             last.calls[n].ingress = ingress

\* C24 witness: the ingress is in the cluster with enabled "True" and its
\* monitor was deleted
C24_Witness ==
    /\ Reconciling
    /\ last.answer.exists
    /\ AnnotationValue(ingress.annotations, AnnotationEnabled) = StrTrueCapital
    /\ Invocations("DeleteMonitor") # {}

\* C25: when AnnotateIngress returns updated, Reconcile updates the ingress
\* in the cluster with the patched copy and does not call EnsureMonitor;
\* EnsureMonitor is only called after an AnnotateIngress of the same
\* Reconcile that returned no update and no error.
C25_UpdateThenStop ==
    [][(last' # last /\ last'.op = "Reconcile") =>
        LET calls == last'.calls
            ensures == {n \in 1..Len(calls) : calls[n].method = "EnsureMonitor"}
            annotates == {n \in 1..Len(calls) : calls[n].method = "AnnotateIngress"}
        IN  /\ (annotates # {} /\ last'.answer.annotate.updated) =>
                   /\ ensures = {}
                   /\ Len(calls) = 2
                   /\ calls[2].method = "Update"
                   /\ calls[1].ingress = cluster.object
                   /\ nginxWhitelistSourceRangeAnnotation
                          \in DOMAIN calls[2].ingress.annotations
                   /\ last'.err = Nil => cluster'.object = calls[2].ingress
                   /\ last'.err # Nil => cluster' = cluster
            /\ ensures # {} =>
                   /\ annotates # {}
                   /\ \A n \in ensures : \E k \in annotates : k < n
                   /\ last'.answer.annotate = [updated |-> FALSE, err |-> Nil]]_vars

\* C25 witness: the patched ingress is in the cluster and EnsureMonitor was
\* not called
C25_Witness ==
    /\ last.op = "Reconcile"
    /\ last.answer.annotate.updated
    /\ last.err = Nil
    /\ Invocations("Update") # {}
    /\ Invocations("EnsureMonitor") = {}
    /\ nginxWhitelistSourceRangeAnnotation \in DOMAIN cluster.object.annotations

\* C26: for an enabled ingress whose creation timestamp plus the creation
\* delay is in the future, Reconcile returns a positive RequeueAfter and no
\* error and calls nothing of the monitor service; EnsureMonitor is never
\* called before the creation delay has passed.
C26_CreationDelay ==
    Reconciling =>
        /\ (/\ EnabledIngress
            /\ last.answer.creationTimestamp + options.CreationDelay > last.answer.at) =>
               /\ last.answer.RequeueAfter > 0
               /\ last.answer.RequeueAfter =
                      last.answer.creationTimestamp + options.CreationDelay
                          - last.answer.at
               /\ last.err = Nil
               /\ last.calls = <<>>
        /\ Invocations("EnsureMonitor") # {} =>
               last.answer.at >= last.answer.creationTimestamp + options.CreationDelay

\* C26 witness: a Reconcile of an enabled ingress was put off
C26_Witness ==
    /\ Reconciling
    /\ EnabledIngress
    /\ last.answer.RequeueAfter > 0
    /\ last.calls = <<>>

\* ---------------------------------------------------------------------
\* Concurrent invocations of the Site24x7 provider's GetIPSourceRanges, in
\* steps from one access of a field of the Provider to the next
\* ---------------------------------------------------------------------

\* the goroutines that call the provider
MaxGoroutines == 2

Goroutines == 1..MaxGoroutines

\* the local variables of an invocation and the statement it is at
Goroutine(pc, id, sourceRanges, err) ==
    [pc |-> pc, id |-> id, sourceRanges |-> sourceRanges, err |-> err]

\* a goroutine outside GetIPSourceRanges
Idle == Goroutine("idle", <<>>, <<>>, Nil)

InitConcurrent ==
    \E lo \in CacheFieldCases :
        \E d \in {[override |-> FALSE, default |-> TRUE, auto |-> FALSE,
                   listed |-> TRUE]} :
            /\ options = [NoDelete |-> FALSE,
                          MonitorDefaults |-> Site24x7Defaults(lo, d, d, d, d)]
            /\ monitors = <<>>
            /\ nextID = 1
            /\ ingress = NoIngress
            /\ last = NoCall
            /\ merge = NoMerge
            /\ account = Site24x7Account(lo, d, d, d, d)
            /\ provider = NoProviderState
            /\ now = 0
            /\ cluster = NoCluster
            /\ threads = [g \in Goroutines |-> Idle]
            /\ published = <<>>

\* a goroutine enters GetIPSourceRanges: builder.FromModel
GoFromModel(g) ==
    /\ threads[g].pc = "idle"
    /\ \E ing \in CacheIngresses :
        \E b \in {FromModel(Client(account), options.MonitorDefaults,
                            buildMonitorModel(ing).monitor)} :
            threads' = [threads EXCEPT ![g] =
                IF b.err # Nil THEN Goroutine("return", <<>>, <<>>, b.err)
                ELSE Goroutine("cacheGet", b.monitor.LocationProfileID, <<>>, Nil)]
    /\ UNCHANGED <<options, monitors, nextID, ingress, last, merge, account,
                   provider, now, cluster, published>>

\* p.sourceRangeCache.Get
GoCacheGet(g) ==
    /\ threads[g].pc = "cacheGet"
    /\ \E cached \in {cacheGet(provider.sourceRangeCache, threads[g].id, now)} :
        threads' = [threads EXCEPT ![g] =
            IF cached.ok THEN Goroutine("return", @.id, cached.value, Nil)
            ELSE Goroutine("readIPProvider", @.id, <<>>, Nil)]
    /\ UNCHANGED <<options, monitors, nextID, ingress, last, merge, account,
                   provider, now, cluster, published>>

\* getProfileIPProvider: if p.ipProvider == nil
GoReadIPProvider(g) ==
    /\ threads[g].pc = "readIPProvider"
    /\ threads' = [threads EXCEPT ![g].pc =
           IF provider.ipProvider THEN "returnIPProvider" ELSE "writeIPProvider"]
    /\ UNCHANGED <<options, monitors, nextID, ingress, last, merge, account,
                   provider, now, cluster, published>>

\* getProfileIPProvider: p.ipProvider, err = NewDefaultProfileIPProvider(...)
GoWriteIPProvider(g) ==
    /\ threads[g].pc = "writeIPProvider"
    /\ \E fault \in {Nil, ErrAPI} :
        /\ provider' = [provider EXCEPT !.ipProvider = (fault = Nil)]
        /\ threads' = [threads EXCEPT ![g] =
               Goroutine("returnIPProvider", @.id, <<>>, fault)]
    /\ UNCHANGED <<options, monitors, nextID, ingress, last, merge, account,
                   now, cluster, published>>

\* getProfileIPProvider: return p.ipProvider, err. The field is read again
\* without synchronisation: after another goroutine's failed creation it is
\* nil although this goroutine has no error
GoReturnIPProvider(g) ==
    /\ threads[g].pc = "returnIPProvider"
    /\ threads' = [threads EXCEPT ![g].pc =
           IF threads[g].err # Nil THEN "return"
           ELSE IF provider.ipProvider THEN "fetch"
           ELSE "fetchNil"]
    /\ UNCHANGED <<options, monitors, nextID, ingress, last, merge, account,
                   provider, now, cluster, published>>

\* client.LocationProfiles().Get and ipProvider.GetLocationIPs
GoFetch(g) ==
    /\ threads[g].pc = "fetch"
    /\ \E answer \in CacheAnswers :
        threads' = [threads EXCEPT ![g] =
            IF answer.profile # Nil THEN Goroutine("return", @.id, <<>>, answer.profile)
            ELSE IF answer.err # Nil THEN Goroutine("return", @.id, <<>>, answer.err)
            ELSE Goroutine("cacheSet", @.id,
                           [n \in 1..Len(answer.ips) |-> answer.ips[n] \o StrSlash32],
                           Nil)]
    /\ UNCHANGED <<options, monitors, nextID, ingress, last, merge, account,
                   provider, now, cluster, published>>

\* client.LocationProfiles().Get and GetLocationIPs on the nil
\* ProfileIPProvider: when the lookup of the profile succeeds the goroutine
\* dereferences nil and panics
GoFetchNil(g) ==
    /\ threads[g].pc = "fetchNil"
    /\ \E answer \in CacheAnswers :
        threads' = [threads EXCEPT ![g] =
            IF answer.profile # Nil THEN Goroutine("return", @.id, <<>>, answer.profile)
            ELSE Goroutine("panic", @.id, <<>>, Nil)]
    /\ UNCHANGED <<options, monitors, nextID, ingress, last, merge, account,
                   provider, now, cluster, published>>

\* p.sourceRangeCache.Set
GoCacheSet(g) ==
    /\ threads[g].pc = "cacheSet"
    /\ provider' = [provider EXCEPT !.sourceRangeCache =
           cacheSet(@, threads[g].id, threads[g].sourceRanges, TTL, now)]
    /\ threads' = [threads EXCEPT ![g].pc = "return"]
    /\ UNCHANGED <<options, monitors, nextID, ingress, last, merge, account,
                   now, cluster, published>>

\* GetIPSourceRanges returns
GoReturn(g) ==
    /\ threads[g].pc = "return"
    /\ threads' = [threads EXCEPT ![g] = Idle]
    /\ UNCHANGED <<options, monitors, nextID, ingress, last, merge, account,
                   provider, now, cluster, published>>

NextConcurrent ==
    \E g \in Goroutines :
        \/ GoFromModel(g)
        \/ GoCacheGet(g)
        \/ GoReadIPProvider(g)
        \/ GoWriteIPProvider(g)
        \/ GoReturnIPProvider(g)
        \/ GoFetch(g)
        \/ GoFetchNil(g)
        \/ GoCacheSet(g)
        \/ GoReturn(g)

SpecConcurrent == InitConcurrent /\ [][NextConcurrent]_vars

\* the goroutine is about to read the Provider's ipProvider field
ReadsIPProvider(g) == threads[g].pc \in {"readIPProvider", "returnIPProvider"}

\* the goroutine is about to write the Provider's ipProvider field
WritesIPProvider(g) == threads[g].pc = "writeIPProvider"

\* C27: the cache is the only state of the provider that concurrent
\* invocations share and write: no two invocations are ever at accesses of
\* another field of the Provider of which one is a write.
C27_OnlyCacheIsShared ==
    \A g \in Goroutines, h \in Goroutines :
        g # h => ~(WritesIPProvider(g) /\ (ReadsIPProvider(h) \/ WritesIPProvider(h)))

\* the calls of a method of the provider during the last invocation
ProviderCalls(method) ==
    {n \in 1..Len(last.calls) : last.calls[n].method = method}

\* C28 (as stated): an EnsureMonitor calls Get at most once and at most one
\* of Create and Update, at most once; a DeleteMonitor calls Delete at most
\* once; after a provider call that returns an error the invocation makes
\* no further provider call and returns that error.
C28_NoCallAfterAnyError ==
    last.op \in {"EnsureMonitor", "DeleteMonitor"} =>
        /\ Cardinality(ProviderCalls("Get")) <= 1
        /\ Cardinality(ProviderCalls("Create") \cup ProviderCalls("Update")) <= 1
        /\ Cardinality(ProviderCalls("Delete")) <= 1
        /\ \A n \in 1..Len(last.calls) :
               last.calls[n].err # Nil =>
                   /\ n = Len(last.calls)
                   /\ last.err = last.calls[n].err

\* C28 (amended): an EnsureMonitor calls Get at most once and at most one of
\* Create and Update, at most once, and a DeleteMonitor calls only Delete,
\* at most once; after a provider call that returns an error other than
\* ErrMonitorNotFound the invocation makes no further provider call and
\* returns that error.  ErrMonitorNotFound from Get is followed by one
\* Create, whose error is returned, and ErrMonitorNotFound from Delete by
\* nothing, with no error returned.
C28_NoRetry ==
    /\ last.op = "EnsureMonitor" =>
           /\ Cardinality(ProviderCalls("Get")) <= 1
           /\ Cardinality(ProviderCalls("Create") \cup ProviderCalls("Update")) <= 1
           /\ ProviderCalls("Delete") = {}
           /\ Len(last.calls) <= 2
    /\ last.op = "DeleteMonitor" =>
           /\ Cardinality(ProviderCalls("Delete")) <= 1
           /\ Len(last.calls) <= 1
    /\ last.op \in {"EnsureMonitor", "DeleteMonitor"} =>
           \A n \in 1..Len(last.calls) :
               /\ last.calls[n].err \notin {Nil, ErrMonitorNotFound} =>
                      /\ n = Len(last.calls)
                      /\ last.err = last.calls[n].err
               /\ (last.calls[n].err = ErrMonitorNotFound
                       /\ last.calls[n].method = "Get") =>
                      /\ n = 1
                      /\ Len(last.calls) = 2
                      /\ last.calls[2].method = "Create"
                      /\ last.err = last.calls[2].err
               /\ (last.calls[n].err = ErrMonitorNotFound
                       /\ last.calls[n].method = "Delete") =>
                      /\ n = Len(last.calls)
                      /\ last.err = Nil

\* C28 witness: the update of a monitor that was found failed and its error
\* was returned after two provider calls
C28_Witness ==
    /\ last.op = "EnsureMonitor"
    /\ Len(last.calls) = 2
    /\ last.calls[1].err = Nil
    /\ last.calls[2].method = "Update"
    /\ last.calls[2].err \in ProviderErrors
    /\ last.err = last.calls[2].err

\* the resource of the last call has no rules, a wildcard host or a host
\* that no URL can be built from
Unsupported ==
    \/ ingress.rules = <<>>
    \/ \E i \in 1..Len(ingress.rules) : "*" \in Range(ingress.rules[i])
    \/ Validate(ingress) # Nil
    \/ buildMonitorModel(ingress).err # Nil

\* C29: DeleteMonitor needs only namespace and name: also for a resource
\* without rules or with a wildcard host it calls the provider's Delete with
\* the name made of the two, or does nothing under NoDelete, and it never
\* returns an error of the validation or of the URL building.
C29_DeleteNeedsOnlyMetadata ==
    (last.op = "DeleteMonitor" /\ Unsupported) =>
        /\ last.err \in {Nil} \cup ProviderErrors
        /\ options.NoDelete => (last.calls = <<>> /\ last.err = Nil)
        /\ ~options.NoDelete =>
               /\ Len(last.calls) = 1
               /\ last.calls[1].method = "Delete"
               /\ last.calls[1].name = ingress.namespace \o <<"-">> \o ingress.name
               /\ last.calls[1].err = Nil => last.err = Nil

\* C29 witness: the monitor of a resource that has no rules any more was
\* deleted from the provider
C29_Witness ==
    /\ last.op = "DeleteMonitor"
    /\ ingress.rules = <<>>
    /\ Len(last.calls) = 1
    /\ last.calls[1].method = "Delete"
    /\ last.calls[1].err = Nil
    /\ last.err = Nil

\* C30: the provider never holds two monitors of the same name, and as long
\* as it holds a monitor of a name that monitor keeps its ID: an
\* EnsureMonitor for a name the provider has updates and does not create.
C30_OneMonitorPerName ==
    [][/\ \A i \in 1..Len(monitors'), j \in 1..Len(monitors') :
              monitors'[i].Name = monitors'[j].Name => i = j
       /\ \A i \in 1..Len(monitors), j \in 1..Len(monitors') :
              monitors[i].Name = monitors'[j].Name =>
                  monitors[i].ID = monitors'[j].ID
       /\ (\E i \in 1..Len(monitors) :
               /\ last'.op = "EnsureMonitor"
               /\ Len(last'.calls) > 0
               /\ last'.calls[1].name = monitors[i].Name) =>
              /\ Len(monitors') = Len(monitors)
              /\ \A n \in 1..Len(last'.calls) : last'.calls[n].method # "Create"]_vars

\* C30 witness: the provider holds the monitors of two resources and the
\* second EnsureMonitor for one of them updated its monitor
C30_Witness ==
    /\ Len(monitors) = 2
    /\ monitors[1].Name # monitors[2].Name
    /\ last.op = "EnsureMonitor"
    /\ Len(last.calls) = 2
    /\ last.calls[2].method = "Update"
    /\ last.calls[2].err = Nil
    /\ last.calls[2].model.ID \in {monitors[1].ID, monitors[2].ID}

\* the fields a finalizer resolves, in the order of the claim: the kind its
\* finalizer lists, its annotation, its default, whether auto-discovery is
\* on for it, and the error of its finalizer
FinalizedFields ==
    LET d == options.MonitorDefaults
    IN  <<[kind |-> "LocationProfiles", key |-> AnnotationSite24x7LocationProfileID,
           default |-> d.LocationProfileID, auto |-> d.AutoLocationProfile,
           err |-> <<"no location profiles configured">>],
          [kind |-> "NotificationProfiles",
           key |-> AnnotationSite24x7NotificationProfileID,
           default |-> d.NotificationProfileID, auto |-> d.AutoNotificationProfile,
           err |-> <<"no notification profiles configured">>],
          [kind |-> "ThresholdProfiles", key |-> AnnotationSite24x7ThresholdProfileID,
           default |-> d.ThresholdProfileID, auto |-> d.AutoThresholdProfile,
           err |-> <<"no threshold profiles configured">>],
          [kind |-> "MonitorGroups", key |-> AnnotationSite24x7MonitorGroupIDs,
           default |-> d.MonitorGroupIDs, auto |-> d.AutoMonitorGroup,
           err |-> <<"no monitor groups configured">>],
          [kind |-> "UserGroups", key |-> AnnotationSite24x7UserGroupIDs,
           default |-> d.UserGroupIDs, auto |-> d.AutoUserGroup,
           err |-> <<"no user groups configured">>]>>

\* the finalizer of the n-th field has to list the account's candidates
Discovers(n) ==
    /\ FinalizedFields[n].key \notin DOMAIN ingress.annotations
    /\ FinalizedFields[n].default = <<>>
    /\ FinalizedFields[n].auto

\* the finalizer of the n-th field fails: nothing is listed
FailsAt(n) == Discovers(n) /\ Len(account[FinalizedFields[n].kind]) = 0

\* the kinds listed during the last call, in the order of the calls
ListedKinds ==
    LET lists == SelectSeq(last.calls, LAMBDA call : call.method = "List")
    IN  [i \in 1..Len(lists) |-> lists[i].kind]

\* the kinds the finalizers of the fields up to the n-th list, in order
RECURSIVE KindsUpTo(_)
KindsUpTo(n) ==
    IF n = 0 THEN <<>>
    ELSE IF Discovers(n) THEN Append(KindsUpTo(n - 1), FinalizedFields[n].kind)
    ELSE KindsUpTo(n - 1)

\* C40: the finalizers run in the order location profile, notification
\* profile, threshold profile, monitor group, user group; the first that
\* fails ends the resolution with its error, no field after it is listed,
\* and no monitor is handed to the API.
C40_FinalizerOrder ==
    (/\ last.op \in {"Create", "Update"}
     /\ ~MalformedJSON(AnnotationSite24x7CustomHeaders)
     /\ ~MalformedJSON(AnnotationSite24x7Actions)) =>
        IF \E n \in 1..5 : FailsAt(n)
        THEN \E n \in 1..5 :
                 /\ FailsAt(n)
                 /\ \A k \in 1..(n - 1) : ~FailsAt(k)
                 /\ ListedKinds = KindsUpTo(n)
                 /\ last.err = <<"failed to build site24x7 monitor from model",
                                 FinalizedFields[n].err>>
                 /\ \A i \in 1..Len(last.calls) : last.calls[i].method = "List"
        ELSE /\ ListedKinds = KindsUpTo(5)
             /\ \E i \in 1..Len(last.calls) : last.calls[i].kind = "Monitors"

\* C40 witness: the location profile was discovered, the threshold profile
\* could not be, and the groups after it were not listed although they had
\* to be discovered too
C40_Witness ==
    /\ last.op = "Create"
    /\ ListedKinds = <<"LocationProfiles", "ThresholdProfiles">>
    /\ last.err = <<"failed to build site24x7 monitor from model",
                    <<"no threshold profiles configured">>>>
    /\ Discovers(4)
    /\ Discovers(5)

\* the sequence has no entry twice
NoRepeats(s) == \A i \in 1..Len(s), j \in 1..Len(s) : s[i] = s[j] => i = j

\* C38: merging never adds a range twice: for a whitelist without repeated
\* entries and any provider ranges, also ones that list a range more than
\* once, the merged whitelist has no repeated entry.
C38_MergeAddsNoRangeTwice ==
    (merge.done /\ NoRepeats(merge.sourceRanges)) => NoRepeats(merge.result)

\* ---------------------------------------------------------------------
\* The reconciler with the monitor service behind it: what AnnotateIngress,
\* EnsureMonitor and DeleteMonitor answer a Reconcile with is what the
\* service does with the object and the provider
\* ---------------------------------------------------------------------

StrRangeX == <<"x">>
StrRangeY == <<"y">>

\* the objects applied under the request's name: enabled or not, with or
\* without a whitelist, with a rule or without any
ControllerIngresses ==
    {Ingress(ReqMeta,
             AnnotationsOf([k \in {AnnotationEnabled, nginxWhitelistSourceRangeAnnotation}
                               |-> IF k = AnnotationEnabled THEN e ELSE w]),
             r, <<>>) :
        e \in {<<"absent">>, StrTrue}, w \in {<<"absent">>, StrRangeX},
        r \in {<<HostA>>, <<>>}}

NoFaults ==
    [get |-> Nil, ranges |-> Nil, update |-> Nil, lookup |-> Nil, write |-> Nil,
     delete |-> Nil]

\* the error the cluster answers an Update of a stale object with
ErrConflict == <<"the object has been modified">>

\* the error each call fails with when it fails
Fault(call) ==
    CASE call = "get" -> ErrTransport
      [] call = "update" -> ErrConflict
      [] call = "write" -> ErrTransport
      [] OTHER -> ErrAPI

\* the errors the cluster and the provider answer the calls of one Reconcile
\* with: the client's Get, the provider's GetIPSourceRanges, the client's
\* Update, the provider's Get and Create or Update, the provider's Delete.
\* A Reconcile ends with the first error, so at most one call fails.
ControllerFaults ==
    {NoFaults} \cup {[NoFaults EXCEPT ![call] = Fault(call)] : call \in DOMAIN NoFaults}

\* no Reconcile yet
NoServedReconcile ==
    [NoReconcile EXCEPT !.answer.annotate =
        [updated |-> FALSE, err |-> Nil, copy |-> NoIngress, update |-> Nil,
         provider |-> <<>>]]

InitController ==
    /\ options \in [NoDelete : BOOLEAN, CreationDelay : CreationDelays]
    /\ monitors = <<>>
    /\ nextID = 1
    /\ ingress = NoIngress
    /\ last = NoServedReconcile
    /\ merge = NoMerge
    /\ account = NoAccount
    /\ provider = NoProviderState
    /\ now = 0
    /\ cluster = NoCluster
    /\ threads = NoThreads
    /\ published \in {<<>>, <<StrRangeX>>, <<StrRangeY, StrRangeX>>}

\* an ingress is created under the request's name while the clock can still
\* reach the end of its creation delay, or the one there is changed
ControllerIngressApplied ==
    /\ cluster.exists \/ now + options.CreationDelay <= TickLength
    /\ \E ing \in ControllerIngresses :
           cluster' = Cluster(TRUE, ing, IF cluster.exists
                                         THEN cluster.creationTimestamp ELSE now)
    /\ UNCHANGED <<options, monitors, nextID, ingress, last, merge, account,
                   provider, now, threads, published>>

\* the ingress is deleted
ControllerIngressDeleted ==
    /\ cluster.exists
    /\ cluster' = NoCluster
    /\ UNCHANGED <<options, monitors, nextID, ingress, last, merge, account,
                   provider, now, threads, published>>

\* the Reconcile of the request with the monitor service behind it, the
\* cluster and the provider failing as f says
ServedReconcile(f) ==
    \E ing \in {cluster.object} :
    \E an \in {AnnotateIngress(Provider, ing, IF f.ranges = Nil
                                              THEN <<"ok", published>>
                                              ELSE <<"err", f.ranges>>)} :
    \E en \in {EnsureMonitor(Provider, ing, f.lookup, f.write)} :
    \E de \in {DeleteMonitor(Provider, options,
                             IF cluster.exists THEN ing
                             ELSE Ingress(ReqMeta, NoAnnotations, <<>>, <<>>),
                             f.delete)} :
    \E a \in {[get |-> f.get,
               annotate |-> [updated |-> an.updated, err |-> an.err],
               patch |-> AnnotationValue(an.ingress.annotations,
                                         nginxWhitelistSourceRangeAnnotation),
               update |-> f.update, ensure |-> en.err, delete |-> de.err]} :
    \E r \in {Reconcile(ReqMeta, cluster, options.CreationDelay, now, a)} :
    \E p \in {IF \E n \in 1..Len(r.calls) : r.calls[n].method = "EnsureMonitor"
              THEN en.p
              ELSE IF \E n \in 1..Len(r.calls) : r.calls[n].method = "DeleteMonitor"
              THEN de.p
              ELSE Provider} :
        /\ ingress' = ing
        /\ cluster' = r.cluster
        /\ monitors' = p.monitors
        /\ nextID' = p.nextID
        /\ last' = Call("Reconcile", r.calls, r.err, an.updated, <<>>,
                        [Reconciliation(cluster, a, now, r.RequeueAfter)
                            EXCEPT !.annotate = [updated |-> an.updated, err |-> an.err,
                                                 copy |-> an.ingress,
                                                 update |-> f.update,
                                                 provider |-> p.calls]])
        /\ UNCHANGED <<options, merge, account, provider, now, threads, published>>

\* the controller reconciling the request
ControllerReconcile == \E f \in ControllerFaults : ServedReconcile(f)

\* time passes until the creation delay of an ingress created at the start
\* or one step later is over
ControllerTick ==
    /\ now < TickLength
    /\ now' = now + TickLength
    /\ UNCHANGED <<options, monitors, nextID, ingress, last, merge, account,
                   provider, cluster, threads, published>>

NextController ==
    \/ ControllerReconcile
    \/ ControllerIngressApplied
    \/ ControllerIngressDeleted
    \/ ControllerTick

SpecController == InitController /\ [][NextController]_vars

\* the last Reconcile called neither EnsureMonitor nor DeleteMonitor
MonitorUntouched ==
    /\ Invocations("EnsureMonitor") = {}
    /\ Invocations("DeleteMonitor") = {}
    /\ last.answer.annotate.provider = <<>>

\* C36: a Reconcile whose Get of the ingress fails with an error other than
\* not found, whose AnnotateIngress fails, or whose Update of the patched
\* ingress fails, returns that error and calls neither EnsureMonitor nor
\* DeleteMonitor, so that no call reaches the provider's monitors
C36_ErrorsStopBeforeTheMonitor ==
    last.op = "Reconcile" =>
        /\ last.answer.get # Nil =>
               last.err = last.answer.get /\ last.calls = <<>> /\ MonitorUntouched
        /\ (Invocations("AnnotateIngress") # {} /\ last.answer.annotate.err # Nil) =>
               last.err = last.answer.annotate.err /\ MonitorUntouched
        /\ (Invocations("Update") # {} /\ last.answer.annotate.update # Nil) =>
               last.err = last.answer.annotate.update /\ MonitorUntouched

\* C36 witness: the cluster refused the Update of the patched ingress of a
\* monitored name, and the Reconcile returned the conflict
C36_Witness ==
    /\ last.op = "Reconcile"
    /\ Invocations("Update") # {}
    /\ last.err = ErrConflict
    /\ Len(monitors) > 0

\* the annotations of an object besides the whitelist of source ranges
OtherAnnotations(ing) ==
    [k \in DOMAIN ing.annotations \ {nginxWhitelistSourceRangeAnnotation}
        |-> ing.annotations[k]]

\* C37: AnnotateIngress changes at most the whitelist-source-range
\* annotation of the object it is given: every other annotation, the rules,
\* the TLS entries and the name are the same after the call, whatever it
\* returns; Reconcile gives it a copy, persists that copy, and the object a
\* later EnsureMonitor gets is the one read from the cluster
C37_OnlyTheWhitelistChanges ==
    (last.op = "Reconcile" /\ Invocations("AnnotateIngress") # {}) =>
        /\ OtherAnnotations(last.answer.annotate.copy) = OtherAnnotations(ingress)
        /\ last.answer.annotate.copy.rules = ingress.rules
        /\ last.answer.annotate.copy.tls = ingress.tls
        /\ last.answer.annotate.copy.name = ingress.name
        /\ last.answer.annotate.copy.namespace = ingress.namespace
        /\ \A n \in Invocations("AnnotateIngress") : last.calls[n].ingress = ingress
        /\ \A n \in Invocations("Update") :
               last.calls[n].ingress = last.answer.annotate.copy
        /\ \A n \in Invocations("EnsureMonitor") : last.calls[n].ingress = ingress

\* C37 witness: AnnotateIngress patched the whitelist of the copy of an
\* ingress with the enabled annotation, and the copy was persisted
C37_Witness ==
    /\ last.op = "Reconcile"
    /\ last.answer.annotate.updated
    /\ Invocations("Update") # {}
    /\ last.answer.annotate.copy # ingress
    /\ AnnotationEnabled \in DOMAIN last.answer.annotate.copy.annotations
    /\ cluster.object = last.answer.annotate.copy

\* the reconcile loop of a controller started without creation delay, for a
\* provider that publishes two ranges
InitLoop ==
    /\ InitController
    /\ options.CreationDelay = 0
    /\ published = <<StrRangeY, StrRangeX>>

\* the objects applied in the loop: with a rule and a whitelist, enabled or
\* not, and enabled without a whitelist
LoopIngresses ==
    {ing \in ControllerIngresses :
        /\ ing.rules # <<>>
        /\ \/ AnnotationEnabled \in DOMAIN ing.annotations
           \/ nginxWhitelistSourceRangeAnnotation \in DOMAIN ing.annotations}

\* the ingress is created, or the one there changed: it gets or loses the
\* enabled annotation, or its whitelist is reset
LoopIngressApplied ==
    \E ing \in LoopIngresses :
        /\ cluster' = Cluster(TRUE, ing, IF cluster.exists
                                         THEN cluster.creationTimestamp ELSE now)
        /\ UNCHANGED <<options, monitors, nextID, ingress, last, merge, account,
                       provider, now, threads, published>>

NextLoop ==
    \/ ControllerReconcile
    \/ LoopIngressApplied
    \/ ControllerIngressDeleted

\* the loop with the scheduling of the controller's work queue: a request
\* whose Reconcile would change something is reconciled again (after an
\* event or after an error) until its calls succeed
SpecLoop ==
    /\ InitLoop
    /\ [][NextLoop]_vars
    /\ SF_vars(ServedReconcile(NoFaults))

\* the last Reconcile persisted a whitelist patch, and the cluster still
\* holds the patched object
Patched ==
    /\ last.op = "Reconcile"
    /\ last.err = Nil
    /\ Invocations("Update") # {}
    /\ cluster.exists
    /\ cluster.object = last.answer.annotate.copy

\* the whitelist of the cluster's object lacks none of the published ranges
Complete ==
    /\ cluster.exists
    /\ ~AnnotateIngress(Provider, cluster.object, <<"ok", published>>).updated

\* the last Reconcile called EnsureMonitor with the cluster's object and
\* persisted nothing
Ensured ==
    /\ last.op = "Reconcile"
    /\ Invocations("EnsureMonitor") # {}
    /\ Invocations("Update") = {}
    /\ cluster.exists
    /\ ingress = cluster.object

\* C32: the reconcile loop does not patch forever. With the published ranges
\* staying the same, the object a Reconcile persisted lacks none of them;
\* a Reconcile of an object that lacks none persists nothing; and after a
\* persisted patch a Reconcile calls EnsureMonitor with the patched object,
\* unless the ingress is changed or deleted before
C32_PatchOnceThenEnsure ==
    /\ [][(last' # last /\ last'.op = "Reconcile") =>
             /\ Complete => (Invocations("Update")' = {} /\ cluster' = cluster)
             /\ Patched' => Complete']_vars
    /\ Patched ~> (Ensured \/ ~cluster.exists
                      \/ cluster.object # last.answer.annotate.copy)

\* C32 witness: EnsureMonitor was called with an enabled ingress whose
\* whitelist an earlier Reconcile had patched, and the monitor exists
C32_Witness ==
    /\ Ensured
    /\ last.err = Nil
    /\ ingress \notin ControllerIngresses
    /\ Len(monitors) > 0

\* the provider has a monitor under the name of the request's ingress
Monitored ==
    \E i \in 1..Len(monitors) :
        monitors[i].Name = NamerName(Ingress(ReqMeta, NoAnnotations, <<>>, <<>>)).name

\* the cluster holds the ingress with the enabled annotation "true"
ClusterEnabled ==
    /\ cluster.exists
    /\ AnnotationValue(cluster.object.annotations, AnnotationEnabled) = StrTrue

\* C33: with no-delete mode off, a Reconcile of an ingress that is gone from
\* the cluster or is not enabled, whose calls succeed, leaves no monitor
\* under the ingress's name; and whenever such an ingress has a monitor,
\* eventually no monitor of that name exists, unless the ingress is enabled
\* again before
C33_OrphanedMonitorDeleted ==
    /\ [][(/\ last' # last
           /\ last'.op = "Reconcile"
           /\ last'.err = Nil
           /\ ~options.NoDelete
           /\ ~ClusterEnabled) => ~Monitored']_vars
    /\ (~options.NoDelete /\ Monitored /\ ~ClusterEnabled)
           ~> (~Monitored \/ ClusterEnabled)

\* C33 witness: the Reconcile of an ingress that lost the enabled annotation
\* deleted its monitor at the provider
C33_Witness ==
    /\ last.op = "Reconcile"
    /\ last.err = Nil
    /\ cluster.exists
    /\ ~ClusterEnabled
    /\ ~Monitored
    /\ \E n \in 1..Len(last.answer.annotate.provider) :
           /\ last.answer.annotate.provider[n].method = "Delete"
           /\ last.answer.annotate.provider[n].err = Nil

\* ---------------------------------------------------------------------
\* The cache of source ranges when lookups fail
\* ---------------------------------------------------------------------

\* the location profile is a default of the operator, discovered in the
\* account, or to be discovered in an account that has none
CacheFaultFieldCases ==
    CacheFieldCases
    \cup {[override |-> FALSE, default |-> FALSE, auto |-> TRUE, listed |-> FALSE]}

InitCacheFaults ==
    \E lo \in CacheFaultFieldCases :
        \E d \in {[override |-> FALSE, default |-> TRUE, auto |-> FALSE,
                   listed |-> TRUE]} :
            /\ options = [NoDelete |-> FALSE,
                          MonitorDefaults |-> Site24x7Defaults(lo, d, d, d, d)]
            /\ monitors = <<>>
            /\ nextID = 1
            /\ ingress = NoIngress
            /\ last = NoCall
            /\ merge = NoMerge
            /\ account = Site24x7Account(lo, d, d, d, d)
            /\ provider = NoProviderState
            /\ now = 0
            /\ cluster = NoCluster
            /\ threads = NoThreads
            /\ published = <<>>

SpecCacheFaults == InitCacheFaults /\ [][NextCache]_vars

\* the configuration of the last lookup resolved to a location profile
Resolved ==
    /\ last.op = "GetIPSourceRanges"
    /\ \/ AnnotationSite24x7LocationProfileID \in DOMAIN ingress.annotations
       \/ options.MonitorDefaults.LocationProfileID # <<>>
       \/ Len(account.LocationProfiles) > 0

\* every list in the cache is the list a successful fetch returned
CachedAreFetched ==
    \A id \in DOMAIN provider.sourceRangeCache :
        \E answer \in CacheAnswers :
            /\ answer.profile = Nil
            /\ answer.err = Nil
            /\ provider.sourceRangeCache[id].value =
                   [n \in 1..Len(answer.ips) |-> answer.ips[n] \o StrSlash32]

\* C35: a GetIPSourceRanges that fails (the configuration does not resolve,
\* the IP provider cannot be created, the lookup of the profile or of its
\* addresses fails) leaves the cache of source ranges as it was; the next
\* lookup for the profile of a failed fetch fetches from the provider again;
\* and the cache only ever holds lists that a fetch returned
C35_FailuresAreNotCached ==
    [][(last'.op = "GetIPSourceRanges" /\ now' = now) =>
           /\ last'.err # Nil =>
                  provider'.sourceRangeCache = provider.sourceRangeCache
           /\ (/\ Resolved
               /\ last.err # Nil
               /\ Resolved'
               /\ LookedUp' = LookedUp) => Fetches(last'.calls) # {}
           /\ CachedAreFetched']_vars

\* C35 witness: the lookup of a profile's addresses failed while the cache
\* held the ranges of another profile, and the profile is not in the cache
C35_Witness ==
    /\ Resolved
    /\ last.err = ErrAPI
    /\ last.answer.err = ErrAPI
    /\ provider.sourceRangeCache # NoEntries
    /\ LookedUp \notin DOMAIN provider.sourceRangeCache

\* the list is the whole list of source ranges of one answer of the API
CompleteRanges(list) ==
    \E answer \in CacheAnswers :
        /\ answer.profile = Nil
        /\ answer.err = Nil
        /\ list = [n \in 1..Len(answer.ips) |-> answer.ips[n] \o StrSlash32]

Ensuring(pc, ing, newMonitor, oldMonitor) ==
    [pc |-> pc, ing |-> ing, newMonitor |-> newMonitor, oldMonitor |-> oldMonitor]

\* a worker outside EnsureMonitor
NotEnsuring == Ensuring("idle", NoIngress, NoMonitor, NoMonitor)

\* the resources the workers reconcile
EnsuredResources ==
    {Ingress(m, NoAnnotations, r, <<>>) : m \in ResourceMetas, r \in {<<HostA>>, <<HostB>>}}

InitEnsure ==
    /\ options \in [NoDelete : {FALSE}]
    /\ monitors = <<>>
    /\ nextID = 1
    /\ ingress = NoIngress
    /\ last = NoCall
    /\ merge = NoMerge
    /\ account = NoAccount
    /\ provider = NoProviderState
    /\ now = 0
    /\ cluster = NoCluster
    /\ threads = [g \in Goroutines |-> NotEnsuring]
    /\ published = <<>>

\* a worker enters EnsureMonitor for a resource that no other worker is
\* reconciling (the work queue hands a key to one worker at a time):
\* Validate, buildMonitorModel and provider.Get
GoEnsureGet(g) ==
    /\ threads[g].pc = "idle"
    /\ \E ing \in EnsuredResources, fault \in {Nil, ErrAPI} :
        /\ \A h \in Goroutines \ {g} :
               threads[h].pc = "idle"
               \/ <<threads[h].ing.namespace, threads[h].ing.name>>
                      # <<ing.namespace, ing.name>>
        /\ Validate(ing) = Nil
        /\ \E b \in {buildMonitorModel(ing)} :
            /\ b.err = Nil
            /\ \E r \in {providerGet(Provider, b.monitor.Name, fault)} :
                threads' = [threads EXCEPT ![g] =
                    IF r.err = ErrMonitorNotFound
                    THEN Ensuring("create", ing, b.monitor, NoMonitor)
                    ELSE IF r.err # Nil THEN NotEnsuring
                    ELSE Ensuring("update", ing, b.monitor, r.monitor)]
    /\ UNCHANGED <<options, monitors, nextID, ingress, last, merge, account,
                   provider, now, cluster, published>>

\* createMonitor, and EnsureMonitor returns
GoEnsureCreate(g) ==
    /\ threads[g].pc = "create"
    /\ \E fault \in {Nil, ErrAPI} :
        \E r \in {createMonitor(Provider, threads[g].newMonitor, fault)} :
            /\ monitors' = r.p.monitors
            /\ nextID' = r.p.nextID
            /\ ingress' = threads[g].ing
            /\ last' = Call("EnsureMonitor", r.p.calls, r.err, FALSE, <<>>, NoAnswer)
    /\ threads' = [threads EXCEPT ![g] = NotEnsuring]
    /\ UNCHANGED <<options, merge, account, provider, now, cluster, published>>

\* updateMonitor, and EnsureMonitor returns
GoEnsureUpdate(g) ==
    /\ threads[g].pc = "update"
    /\ \E fault \in {Nil, ErrAPI} :
        \E r \in {updateMonitor(Provider, threads[g].oldMonitor,
                                threads[g].newMonitor, fault)} :
            /\ monitors' = r.p.monitors
            /\ nextID' = r.p.nextID
            /\ ingress' = threads[g].ing
            /\ last' = Call("EnsureMonitor", r.p.calls, r.err, FALSE, <<>>, NoAnswer)
    /\ threads' = [threads EXCEPT ![g] = NotEnsuring]
    /\ UNCHANGED <<options, merge, account, provider, now, cluster, published>>

NextEnsure ==
    \E g \in Goroutines :
        \/ GoEnsureGet(g)
        \/ GoEnsureCreate(g)
        \/ GoEnsureUpdate(g)

SpecEnsure == InitEnsure /\ [][NextEnsure]_vars

\* C31: EnsureMonitor invocations that run at once for different resources
\* never leave the provider with two monitors of the same name.
C31_NoTwoMonitorsOfOneName ==
    \A i, j \in 1..Len(monitors) :
        i # j => monitors[i].Name # monitors[j].Name

\* ---------------------------------------------------------------------
\* The service called for resources that lack rules or TLS entries
\* ---------------------------------------------------------------------

\* Spec.TLS: no entry, an entry without hosts, an entry whose first host is
\* empty, an entry with a host, an entry with a wildcard host
ReachTLS == {<<>>, <<<<>>>>, <<<<<<>>>>>>, <<<<HostB>>>>, <<<<HostWildcard>>>>}

\* Spec.Rules: no rule, a rule with a host, a rule without host
ReachRules == {<<>>, <<HostA>>, <<<<>>>>}

\* resources without annotations, and enabled ones with a whitelist
ReachIngresses ==
    {Ingress([namespace |-> <<"k">>, name |-> <<"f">>], a, r, t) :
        a \in {NoAnnotations,
               SetAnnotation(EnabledOnly, nginxWhitelistSourceRangeAnnotation,
                             <<"x">>)},
        r \in ReachRules, t \in ReachTLS}

InitReach ==
    /\ options \in [NoDelete : BOOLEAN]
    /\ monitors = <<>>
    /\ nextID = 1
    /\ ingress = NoIngress
    /\ last = NoCall
    /\ merge = NoMerge
    /\ account = NoAccount
    /\ provider = NoProviderState
    /\ now = 0
    /\ cluster = NoCluster
    /\ threads = NoThreads
    /\ published = <<>>

ReachEnsureMonitor ==
    \E ing \in ReachIngresses, f \in FaultPairs :
        \E r \in {EnsureMonitor(Provider, ing, f[1], f[2])} :
            /\ monitors' = r.p.monitors
            /\ nextID' = r.p.nextID
            /\ ingress' = ing
            /\ last' = Call("EnsureMonitor", r.p.calls, r.err, FALSE, <<>>, NoAnswer)
            /\ UNCHANGED <<options, merge, account, provider, now, cluster,
                           threads, published>>

ReachDeleteMonitor ==
    \E ing \in ReachIngresses, fault \in {Nil} \cup ProviderErrors :
        \E r \in {DeleteMonitor(Provider, options, ing, fault)} :
            /\ monitors' = r.p.monitors
            /\ nextID' = r.p.nextID
            /\ ingress' = ing
            /\ last' = Call("DeleteMonitor", r.p.calls, r.err, FALSE, <<>>, NoAnswer)
            /\ UNCHANGED <<options, merge, account, provider, now, cluster,
                           threads, published>>

ReachGetProviderIPSourceRanges ==
    \E ing \in ReachIngresses, answer \in {<<"ok", <<<<"y">>>>>>, <<"err", ErrAPI>>} :
        \E r \in {GetProviderIPSourceRanges(Provider, ing, answer)} :
            /\ ingress' = ing
            /\ last' = Call("GetProviderIPSourceRanges", r.p.calls, r.err, FALSE,
                            r.ranges, answer)
            /\ UNCHANGED <<options, monitors, nextID, merge, account, provider,
                           now, cluster, threads, published>>

ReachAnnotateIngress ==
    \E ing \in ReachIngresses, answer \in {<<"ok", <<<<"y">>>>>>, <<"err", ErrAPI>>} :
        \E r \in {AnnotateIngress(Provider, ing, answer)} :
            /\ ingress' = r.ingress
            /\ last' = Call("AnnotateIngress", r.p.calls, r.err, r.updated,
                            <<>>, answer)
            /\ UNCHANGED <<options, monitors, nextID, merge, account, provider,
                           now, cluster, threads, published>>

NextReach ==
    \/ ReachEnsureMonitor
    \/ ReachDeleteMonitor
    \/ ReachGetProviderIPSourceRanges
    \/ ReachAnnotateIngress

SpecReach == InitReach /\ [][NextReach]_vars

\* C39: no operation of the service ends in the panic of a read of a rule
\* or TLS entry that is not there.  A resource that Validate rejects makes
\* EnsureMonitor, GetProviderIPSourceRanges and AnnotateIngress return
\* before the URL is built (no error, no provider call); for a resource that
\* Validate accepts the first rule exists, the first TLS host is read only
\* when it is there and not empty, and building the URL reads no missing
\* entry
C39_NoMissingEntryRead ==
    last.op # "none" =>
        /\ last.err # ErrIndexOutOfRange
        /\ (Validate(ingress) # Nil /\ last.op # "DeleteMonitor") =>
               (last.err = Nil /\ last.calls = <<>>)
        /\ Validate(ingress) = Nil =>
               /\ Len(ingress.rules) > 0
               /\ ~buildHostURL(ingress).panic
               /\ BuildMonitorURL(ingress).err # ErrIndexOutOfRange
               /\ supportsTLS(ingress) => ~TLSHostRead(ingress).panic

\* C39 witness: EnsureMonitor created the monitor of a resource whose TLS
\* entry lists no host, from the host of its first rule
C39_Witness ==
    /\ last.op = "EnsureMonitor"
    /\ last.err = Nil
    /\ ingress.tls = <<<<>>>>
    /\ ingress.rules = <<HostA>>
    /\ \E i \in 1..Len(monitors) :
           monitors[i].URL = <<"h", "t", "t", "p", ":", "/", "/", "a">>

=============================================================================
